---- MODULE Spec2Model ----
(***************************************************************************)
(* A model of cytoprocess: the per-sample extraction stages, the export    *)
(* assembler (prepare) and the pure helpers they rest on (path resolution, *)
(* pulse normalisation, merge, column governance).                         *)
(*                                                                         *)
(* Project state (the files of a project directory) is held in the        *)
(* variables json .. eco; `last` records the command that ran last. The    *)
(* pure functions are exercised through the pair call/ret: Init draws the  *)
(* arguments into `call`, one action applies the function into `ret`.      *)
(***************************************************************************)
EXTENDS Integers, Sequences, FiniteSets, TLC

VARIABLES
    json,        \* converted/<s>.json per sample: [kind, ver]
    listed,      \* sample ids of meta/samples.csv
    instMeta,    \* work/sample_metadata_from_instrument.parquet: [exists, rows]
    workCyto,    \* samples with work/<s>_cytometric_features.parquet
    workPulses,  \* samples with work/<s>_pulses.parquet
    metaCyto,    \* samples with meta/<s>_cytometric_features.csv.gz
    metaPulses,  \* samples with meta/<s>_pulses.csv.gz
    images,      \* images/<s>/: [exists, files]
    imgFeat,     \* work/<s>_image_features.parquet: [exists, rows]
    ecoDir,      \* whether ecotaxa/ exists
    eco,         \* the files of ecotaxa/: name -> content
    last,        \* the last command: its options, outcome and what it wrote
    call,        \* arguments of a pure function under check
    ret,         \* its result
    remote,      \* the EcoTaxa server: its samples and its import job
    up,          \* the upload command: its position and what it holds
    samplesCsv,  \* meta/samples.csv as `list` reads and writes it: its rows
    pool         \* compute_features inside pool.map: tasks, workers, results

vars == <<json, listed, instMeta, workCyto, workPulses, metaCyto, metaPulses,
          images, imgFeat, ecoDir, eco, last, call, ret, remote, up,
          samplesCsv, pool>>

projectVars == <<json, listed, instMeta, workCyto, workPulses, metaCyto,
                 metaPulses, images, imgFeat, ecoDir, eco, last, remote, up,
                   samplesCsv, pool>>

(***************************************************************************)
(* Bounds.                                                                 *)
(***************************************************************************)
\* Samples of a project. A sample id is represented by its rank in the
\* string order of the ids, so that sorting by sample_id is sorting by rank.
NSamples == 2
\* Content versions a sample's JSON document can go through (re-conversion).
MaxVer == 2
\* Particles of a sample's JSON document.
NParticles == 2
\* Objects of the tables given to _merge_sample_data on its own.
MaxObjects == 3

Samples == 1..NSamples
Particles == 1..NParticles

\* --sample: 0 stands for "no filter".
Filters == {0} \cup Samples


(***************************************************************************)
(* Generic helpers.                                                        *)
(***************************************************************************)
Range(s) == {s[i] : i \in DOMAIN s}

\* All orders in which a directory listing (glob) may return a set of names.
Orders(S) == {o \in [1..Cardinality(S) -> S] : Range(o) = S}


(***************************************************************************)
(* utils.get_sample_files: the .json files of converted/, narrowed to the  *)
(* --sample filter; an empty list when there are none.                     *)
(***************************************************************************)
get_sample_files(js, filt) ==
    LET all == {s \in Samples : js[s].kind # "none"}
    IN  IF filt = 0 THEN all ELSE {s \in all : s = filt}

(***************************************************************************)
(* extract_meta.run (normal operation).                                    *)
(***************************************************************************)
\* df.sort_values('sample_id'): insertion of a row into a sorted table.
RECURSIVE InsertBySampleId(_, _)
InsertBySampleId(sorted, r) ==
    IF sorted = <<>> THEN <<r>>
    ELSE IF r.sample_id < Head(sorted).sample_id THEN <<r>> \o sorted
    ELSE <<Head(sorted)>> \o InsertBySampleId(Tail(sorted), r)

RECURSIVE SortBySampleId(_)
SortBySampleId(rows) ==
    IF rows = <<>> THEN <<>>
    ELSE InsertBySampleId(SortBySampleId(Tail(rows)), Head(rows))

\* The rows extracted in this run, in the order the files were listed: one
\* per document that has an 'instrument' section.
RECURSIVE MetadataRows(_, _)
MetadataRows(js, order) ==
    IF order = <<>> THEN <<>>
    ELSE LET s == Head(order)
         IN  (IF js[s].kind = "ok"
              THEN <<[sample_id |-> s, val |-> <<"inst", s, js[s].ver>>]>>
              ELSE <<>>) \o MetadataRows(js, Tail(order))

\* existing_df[~existing_df['sample_id'].isin(new_df['sample_id'])]
KeepAllExisting(existing, new) == existing

DropReplaced(existing, new) ==
    SelectSeq(existing,
              LAMBDA r : \A i \in DOMAIN new : new[i].sample_id # r.sample_id)

\* The whole of run: the new artifact, the outcome, whether it was written
\* and which documents were read and extracted again.
ExtractMetaRun(js, im, order) ==
    LET new == MetadataRows(js, order)
        unchanged(o) == [im |-> im, outcome |-> o, wrote |-> FALSE,
                         extracted |-> {}]
    IN  IF order = <<>> THEN unchanged("nofiles")
        ELSE IF \E i \in DOMAIN order : js[order[i]].kind = "malformed"
        THEN unchanged("CytoError")
        ELSE IF new = <<>> THEN unchanged("KeyError")
        ELSE LET existing == IF im.exists THEN DropReplaced(im.rows, new)
                             ELSE <<>>
             IN  [im |-> [exists |-> TRUE,
                          rows |-> SortBySampleId(existing \o new)],
                  outcome |-> "ok", wrote |-> TRUE,
                  extracted |-> {new[i].sample_id : i \in DOMAIN new}]

NoJson == [kind |-> "none", ver |-> 0]
NoTable == [exists |-> FALSE, rows |-> <<>>]
NoDir == [exists |-> FALSE, files |-> {}, bad |-> {}]

\* The record of a command: its options, how it ended, the outputs it wrote
\* again although they existed, the samples prepare archived and the
\* <<sample, artifact>> its validation reported missing.
Command(cmd, filt, force, only_tsv, outcome, rewrote, bundled) ==
    [cmd |-> cmd, filt |-> filt, force |-> force, only_tsv |-> only_tsv,
     outcome |-> outcome, rewrote |-> rewrote, bundled |-> bundled,
     reported |-> {}]

NoCommand == Command("none", 0, FALSE, FALSE, "none", {}, {})

\* extract_meta takes no --force option (cli.py): it is always run without.
ExtractMeta(filt) ==
    \E order \in Orders(get_sample_files(json, filt)) :
        LET r == ExtractMetaRun(json, instMeta, order)
        IN  /\ instMeta' = r.im
            /\ last' = Command("extract_meta", filt, FALSE, FALSE, r.outcome,
                               IF r.wrote /\ instMeta.exists
                               THEN {<<"instMeta", 0>>} ELSE {}, {})
            /\ UNCHANGED <<json, listed, workCyto, workPulses, metaCyto,
                           metaPulses, images, imgFeat, ecoDir, eco, call, ret, remote, up,
                   samplesCsv, pool>>

(***************************************************************************)
(* What utils.py defines, and what the command modules import from it and  *)
(* pass to it.                                                             *)
(***************************************************************************)
UtilsExports ==
    {"setup_logging", "log_command_start", "log_command_success",
     "ensure_project_dir", "get_json_section", "get_sample_files",
     "raiseCytoError"}

UtilsImports(module) ==
    CASE module = "convert" ->
            {"get_sample_files", "ensure_project_dir", "log_command_success",
             "setup_file_logging", "log_command_start"}
      [] module = "summarise_pulses" ->
            {"get_sample_files", "ensure_project_dir", "get_json_section",
             "setup_file_logging", "log_command_start", "log_command_success"}
      [] module = "extract_cyto" ->
            {"get_sample_files", "ensure_project_dir", "get_json_section"}
      [] module = "extract_meta" ->
            {"get_sample_files", "ensure_project_dir", "get_json_section",
             "setup_logging", "log_command_start", "log_command_success",
             "raiseCytoError"}
      [] module = "extract_images" ->
            {"get_sample_files", "ensure_project_dir", "get_json_section",
             "setup_logging", "log_command_start", "log_command_success",
             "raiseCytoError"}
      [] module = "compute_features" ->
            {"ensure_project_dir", "log_command_start", "log_command_success",
             "setup_logging"}
      [] module = "prepare" ->
            {"ensure_project_dir", "setup_logging", "log_command_start",
             "log_command_success", "raiseCytoError"}

\* from cytoprocess.utils import <name>: ImportError when utils lacks it.
ImportFails(module) == ~(UtilsImports(module) \subseteq UtilsExports)

\* get_sample_files(project, logger, kind="json", ctx=None): the parameters
\* without a default, and the ones each caller passes.
GetSampleFilesRequired == {"project", "logger"}

GetSampleFilesArgs(module) ==
    IF module \in {"extract_cyto", "summarise_pulses", "convert"}
    THEN {"project", "kind", "ctx"}
    ELSE {"project", "logger", "kind", "ctx"}

\* TypeError: missing 1 required positional argument.
CallFails(module) == ~(GetSampleFilesRequired \subseteq GetSampleFilesArgs(module))

\* How a command ends before doing anything, "" when it starts normally.
StartupError(module) ==
    IF ImportFails(module) THEN "ImportError"
    ELSE IF CallFails(module) THEN "TypeError"
    ELSE ""

(***************************************************************************)
(* convert.run, extract_cyto.run, summarise_pulses.run.                    *)
(***************************************************************************)
\* convert: every raw/<s>.cyz without a .json (or all, with --force) is
\* converted; samples.csv gets a row for every converted sample it lacks.
ConvertRun(js, csv, filt, force) ==
    IF StartupError("convert") # ""
    THEN [json |-> js, listed |-> csv, outcome |-> StartupError("convert"),
          rewrote |-> {}]
    ELSE LET todo == {s \in Samples :
                        (filt = 0 \/ s = filt) /\ (js[s].kind = "none" \/ force)}
             out == [s \in Samples |->
                        IF s \in todo THEN [kind |-> "ok", ver |-> 1] ELSE js[s]]
         IN  [json |-> out,
              listed |-> csv \cup {s \in Samples : out[s].kind # "none"},
              outcome |-> "ok",
              rewrote |-> {<<"json", s>> : s \in {x \in todo : js[x].kind # "none"}}]

\* extract_cyto and summarise_pulses write one file per sample under meta/,
\* skipping a sample whose file exists unless --force is given.
PerSampleMetaRun(module, js, done, filt, force) ==
    IF StartupError(module) # ""
    THEN [done |-> done, outcome |-> StartupError(module), rewrote |-> {}]
    ELSE LET files == get_sample_files(js, filt)
             todo == {s \in files : (s \notin done \/ force) /\ js[s].kind = "ok"}
         IN  IF \E s \in files : (s \notin done \/ force) /\ js[s].kind = "malformed"
             THEN [done |-> done, outcome |-> "Exception", rewrote |-> {}]
             ELSE [done |-> done \cup todo, outcome |-> "ok",
                   rewrote |-> {<<module, s>> : s \in todo \cap done}]

(***************************************************************************)
(* extract_images.run.                                                     *)
(***************************************************************************)
\* images/<s>/<particleId>.png for every image of the document.
ImageFiles(s) == Particles

RECURSIVE ExtractImagesLoop(_, _, _, _, _)
ExtractImagesLoop(js, imgs, order, force, rewrote) ==
    IF order = <<>>
    THEN [images |-> imgs, outcome |-> "ok", rewrote |-> rewrote]
    ELSE LET s == Head(order)
             rw == IF imgs[s].exists THEN rewrote \cup {<<"images", s>>}
                   ELSE rewrote
             created == [imgs EXCEPT ![s] = [exists |-> TRUE, files |-> {},
                                             bad |-> {}]]
             written == [imgs EXCEPT ![s] = [exists |-> TRUE,
                                             files |-> ImageFiles(s),
                                             bad |-> {}]]
         IN  IF imgs[s].exists /\ ~force
             THEN ExtractImagesLoop(js, imgs, Tail(order), force, rewrote)
             ELSE IF js[s].kind = "malformed"
             THEN [images |-> created, outcome |-> "CytoError", rewrote |-> rw]
             ELSE IF js[s].kind = "nosection"
             THEN ExtractImagesLoop(js, created, Tail(order), force, rw)
             ELSE ExtractImagesLoop(js, written, Tail(order), force, rw)

ExtractImagesRun(js, imgs, order, force) ==
    IF order = <<>>
    THEN [images |-> imgs, outcome |-> "nofiles", rewrote |-> {}]
    ELSE ExtractImagesLoop(js, imgs, order, force, {})

(***************************************************************************)
(* compute_features.run.                                                   *)
(***************************************************************************)
ObjectId(s, p) == <<s, p>>

RECURSIVE SortedSeq(_)
SortedSeq(S) ==
    IF S = {} THEN <<>>
    ELSE LET m == CHOOSE x \in S : \A y \in S : x <= y
         IN  <<m>> \o SortedSeq(S \ {m})

\* One row per particle of `ps`, sorted by object_id; `src` names the table.
ObjectRows(src, s, ps) ==
    LET o == SortedSeq(ps)
    IN  [i \in DOMAIN o |-> [sample_id |-> s, object_id |-> ObjectId(s, o[i]),
                             val |-> <<src, s, o[i]>>]]

FeatureRows(s, files) == ObjectRows("img", s, files)

\* The rows of a cytometric table for the particles `o`, in that order.
CytoRows(s, o) ==
    [i \in DOMAIN o |-> [sample_id |-> s, object_id |-> ObjectId(s, o[i]),
                         val |-> <<"cyto", s, o[i]>>]]

\* The row of meta/samples.csv of a sample.
CustomRow(s) == [sample_id |-> s, val |-> <<"custom", s>>]

\* _process_single_image returns a row, or None for an image that cannot be
\* read or segmented or whose features cannot be computed (`bad`).
ProcessSingleImage(imgs, s) == imgs[s].files \ imgs[s].bad

\* `if not rows: continue`: the table is written when some image gave a row.
WritesTable(rows) == rows # {}

ComputeFeaturesRun(imgs, feats, filt, force) ==
    LET dirs == {s \in Samples : imgs[s].exists /\ (filt = 0 \/ s = filt)}
        todo == {s \in dirs : /\ ~feats[s].exists \/ force
                              /\ imgs[s].files # {}
                              /\ WritesTable(ProcessSingleImage(imgs, s))}
    IN  IF dirs = {}
        THEN [imgFeat |-> feats, outcome |-> "nodirs", rewrote |-> {}]
        ELSE [imgFeat |-> [s \in Samples |->
                              IF s \in todo
                              THEN [exists |-> TRUE,
                                    rows |-> FeatureRows(
                                                 s, ProcessSingleImage(imgs, s))]
                              ELSE feats[s]],
              outcome |-> "ok",
              rewrote |-> {<<"imgFeat", s>> : s \in {x \in todo : feats[x].exists}}]

(***************************************************************************)
(* prepare._merge_sample_data. A table is a sequence of rows; a row is a   *)
(* record of its key columns and one payload column `val`. NA is the       *)
(* missing cell of a left join.                                            *)
(***************************************************************************)
NA == <<>>

SameKeys(l, r, on) == \A k \in on : r[k] = l[k]

\* how='inner': the rows without a match are dropped.
RECURSIVE InnerJoin(_, _, _, _)
InnerJoin(left, right, on, col) ==
    IF left = <<>> THEN <<>>
    ELSE LET l == Head(left)
             m == SelectSeq(right, LAMBDA r : SameKeys(l, r, on))
         IN  [i \in DOMAIN m |-> l @@ (col :> m[i].val)]
                 \o InnerJoin(Tail(left), right, on, col)

\* left.merge(right, on=on, how='left'): every left row, in order, once per
\* matching right row, or once with the right column missing.
RECURSIVE LeftJoin(_, _, _, _)
LeftJoin(left, right, on, col) ==
    IF left = <<>> THEN <<>>
    ELSE LET l == Head(left)
             m == SelectSeq(right, LAMBDA r : SameKeys(l, r, on))
         IN  (IF m = <<>> THEN <<l @@ (col :> NA)>>
              ELSE [i \in DOMAIN m |-> l @@ (col :> m[i].val)])
                 \o LeftJoin(Tail(left), right, on, col)

\* cytometric, then image features, pulses, custom metadata and instrument
\* metadata; iloc[0] of the instrument rows raises when there is none.
MergeSampleData(cyto, img, pulses, sample_meta, instrument_meta) ==
    IF instrument_meta = <<>> THEN [error |-> "IndexError", df |-> <<>>]
    ELSE LET d1 == LeftJoin(cyto, img, {"sample_id", "object_id"}, "img")
             d2 == LeftJoin(d1, pulses, {"sample_id", "object_id"}, "pulse")
             d3 == LeftJoin(d2, sample_meta, {"sample_id"}, "custom")
             d4 == LeftJoin(d3, instrument_meta, {"sample_id"}, "inst")
         IN  [error |-> "", df |-> d4]

(***************************************************************************)
(* prepare.run. The files of ecotaxa/ are a function from names to         *)
(* contents; a name is <<"tsv", s>>, <<"zip", s>> or <<"png", p>>          *)
(* (ecotaxa_<s>.tsv, ecotaxa_<s>.zip, <p>.png).                            *)
(***************************************************************************)
Tsv(s) == <<"tsv", s>>
Zip(s) == <<"zip", s>>
Png(p) == <<"png", p>>

NoFiles == [n \in {} |-> NA]

PutFile(files, name, content) ==
    [n \in DOMAIN files \cup {name} |-> IF n = name THEN content ELSE files[n]]

RemoveFiles(files, names) == [n \in DOMAIN files \ names |-> files[n]]

ArtifactKinds == {"meta", "cyto", "pulses", "images", "imgfeat"}

\* _ensure_sample_data without the check of the image directory.
MissingArtifactsNoImages(im, wc, wp, imgs, feats, s) ==
    {k \in ArtifactKinds \ {"images"} :
        \/ k = "meta" /\ \A i \in DOMAIN im.rows : im.rows[i].sample_id # s
        \/ k = "cyto" /\ s \notin wc
        \/ k = "pulses" /\ s \notin wp
        \/ k = "imgfeat" /\ ~feats[s].exists}

\* _ensure_sample_data: the artifacts a sample lacks.
MissingArtifacts(im, wc, wp, imgs, feats, s) ==
    {k \in ArtifactKinds :
        \/ k = "meta" /\ \A i \in DOMAIN im.rows : im.rows[i].sample_id # s
        \/ k = "cyto" /\ s \notin wc
        \/ k = "pulses" /\ s \notin wp
        \/ k = "images" /\ ~imgs[s].exists
        \/ k = "imgfeat" /\ ~feats[s].exists}

\* The tables of a sample under work/ that no stage of this code writes:
\* cytometric features and pulses, one row per particle.
CytoTable(s) == CytoRows(s, SortedSeq(Particles))
PulseTable(s) == ObjectRows("pulse", s, Particles)

\* df['object_id'].str.replace(f"{sample_id}_", "", n=1) + ".png"
ImgFileName(object_id) == Png(object_id[2])

\* _prepare_ecotaxa_tsv: column names, type tags, then one line per row,
\* of which the object_id and the img_file_name are kept.
TsvContent(df) ==
    [kind |-> "tsv", header |-> <<"names", "types">>,
     rows |-> [i \in DOMAIN df |->
                  [object_id |-> df[i].object_id,
                   img_file_name |-> ImgFileName(df[i].object_id)]]]

(***************************************************************************)
(* prepare._prepare_ecotaxa_tsv, on the column names. A column name is     *)
(* [grp, id, n]: grp is the prefix it starts with ("img", "object",        *)
(* "process", "acq", "sample", or "other" for none of them), id whether it *)
(* ends with "_id", n tells the names of a group apart.                    *)
(***************************************************************************)
ObjectLimit == 501
ProcessLimit == 31
AcqLimit == 31
SampleLimit == 61

Col(grp, id, n) == [grp |-> grp, id |-> id, n |-> n]

StartsWith(cols, grp) == SelectSeq(cols, LAMBDA c : c.grp = grp)

\* cols[:limit] without the length test.
KeepAllColumns(cols, limit) == cols

\* if len(cols) > limit: cols = cols[:limit]
Truncate(cols, limit) ==
    IF Len(cols) > limit THEN SubSeq(cols, 1, limit) ELSE cols

\* The columns of the written table, in order, and the groups a truncation
\* warning was logged for, in order.
PrepareEcotaxaTsv(columns) ==
    LET df == columns \o <<Col("img", FALSE, 1), Col("img", FALSE, 2)>>
        id_cols == SelectSeq(df, LAMBDA c : c.id)
        other_cols == SelectSeq(df, LAMBDA c : ~c.id)
        cols == id_cols \o other_cols
        limits == <<[grp |-> "object", limit |-> ObjectLimit],
                    [grp |-> "process", limit |-> ProcessLimit],
                    [grp |-> "acq", limit |-> AcqLimit],
                    [grp |-> "sample", limit |-> SampleLimit]>>
        warned == SelectSeq(limits,
                            LAMBDA l : Len(StartsWith(cols, l.grp)) > l.limit)
    IN  [ordered_cols |-> StartsWith(cols, "img")
                            \o Truncate(StartsWith(cols, "object"), ObjectLimit)
                            \o Truncate(StartsWith(cols, "process"), ProcessLimit)
                            \o Truncate(StartsWith(cols, "acq"), AcqLimit)
                            \o Truncate(StartsWith(cols, "sample"), SampleLimit),
         warnings |-> [i \in DOMAIN warned |-> warned[i].grp]]

\* _create_ecotaxa_zip without the removal of the transient files.
CreateEcotaxaZipNoCleanup(files, s, image_files) ==
    LET processed == {Png(p) : p \in image_files}
        copies == [n \in DOMAIN files \cup processed |->
                     IF n \in processed THEN [kind |-> "png"] ELSE files[n]]
    IN  PutFile(copies, Zip(s),
                [kind |-> "zip", members |-> {Tsv(s)} \cup processed,
                 table |-> files[Tsv(s)]])

\* _create_ecotaxa_zip: the table and a scale-bar copy of every image of
\* images/<s>/ go into the archive; the table and the copies are removed.
CreateEcotaxaZip(files, s, image_files) ==
    LET processed == {Png(p) : p \in image_files}
        copies == [n \in DOMAIN files \cup processed |->
                     IF n \in processed THEN [kind |-> "png"] ELSE files[n]]
        zipped == PutFile(copies, Zip(s),
                          [kind |-> "zip", members |-> {Tsv(s)} \cup processed,
                           table |-> files[Tsv(s)]])
    IN  RemoveFiles(zipped, {Tsv(s)} \cup processed)

\* The loop of run over the samples; a sample's files do not depend on the
\* other samples', so the samples are taken in ascending order. `acc` holds
\* the files of ecotaxa/, the samples whose table was written and the
\* samples that were archived.
RECURSIVE PrepareLoop(_, _, _, _, _, _, _, _, _, _)
PrepareLoop(todo, csv, im, wc, wp, imgs, feats, force, only_tsv, acc) ==
    IF todo = {} THEN acc
    ELSE LET s == CHOOSE x \in todo : \A y \in todo : x <= y
             rest == todo \ {s}
             skip == \/ Tsv(s) \in DOMAIN acc.eco /\ only_tsv /\ ~force
                     \/ Zip(s) \in DOMAIN acc.eco /\ ~only_tsv /\ ~force
             m == MergeSampleData(
                      CytoTable(s), feats[s].rows, PulseTable(s),
                      IF s \in csv THEN <<CustomRow(s)>> ELSE <<>>,
                      SelectSeq(im.rows, LAMBDA r : r.sample_id = s))
             withTsv == PutFile(acc.eco, Tsv(s), TsvContent(m.df))
         IN  IF skip
             THEN PrepareLoop(rest, csv, im, wc, wp, imgs, feats, force,
                              only_tsv, acc)
             ELSE IF s \notin wc \/ s \notin wp \/ ~feats[s].exists
             THEN [acc EXCEPT !.error = "FileNotFoundError"]
             ELSE IF m.error # "" THEN [acc EXCEPT !.error = m.error]
             ELSE IF only_tsv
             THEN PrepareLoop(rest, csv, im, wc, wp, imgs, feats, force,
                              only_tsv,
                              [acc EXCEPT !.eco = withTsv,
                                          !.tables = @ \cup {s}])
             ELSE PrepareLoop(rest, csv, im, wc, wp, imgs, feats, force,
                              only_tsv,
                              [acc EXCEPT
                                 !.eco = CreateEcotaxaZip(withTsv, s, imgs[s].files),
                                 !.tables = @ \cup {s},
                                 !.bundled = @ \cup {s}])

\* run: list the samples, validate them all, then create ecotaxa/ and
\* prepare each sample.
PrepareRun(csv, im, wc, wp, imgs, feats, dir, files, filt, force, only_tsv) ==
    LET samples == IF filt = 0 THEN csv ELSE {filt}
        abort(warned) == [ecoDir |-> dir, eco |-> files, outcome |-> "CytoError",
                          bundled |-> {}, rewrote |-> {}, reported |-> warned]
        out(s) == IF only_tsv THEN Tsv(s) ELSE Zip(s)
    IN  IF filt # 0 /\ filt \notin csv THEN abort({})
        ELSE IF ~im.exists THEN abort({})
        ELSE IF \E s \in samples :
                    MissingArtifacts(im, wc, wp, imgs, feats, s) # {}
        THEN abort({<<s, k>> : s \in samples, k \in ArtifactKinds} \cap
                   {<<s, k>> \in Samples \X ArtifactKinds :
                       k \in MissingArtifacts(im, wc, wp, imgs, feats, s)})
        ELSE LET r == PrepareLoop(samples, csv, im, wc, wp, imgs, feats, force,
                                  only_tsv,
                                  [eco |-> files, error |-> "", tables |-> {},
                                   bundled |-> {}])
             IN  [ecoDir |-> TRUE, eco |-> r.eco,
                  outcome |-> IF r.error = "" THEN "ok" ELSE r.error,
                  bundled |-> r.bundled,
                  rewrote |-> {out(s) : s \in {x \in r.tables :
                                                  out(x) \in DOMAIN files}},
                  reported |-> {}]

(***************************************************************************)
(* The commands of cli.py as actions on the project.                       *)
(***************************************************************************)
Convert(filt, force) ==
    LET r == ConvertRun(json, listed, filt, force)
    IN  /\ json' = r.json /\ listed' = r.listed
        /\ last' = Command("convert", filt, force, FALSE, r.outcome, r.rewrote, {})
        /\ UNCHANGED <<instMeta, workCyto, workPulses, metaCyto, metaPulses,
                       images, imgFeat, ecoDir, eco, call, ret, remote, up,
                   samplesCsv, pool>>

ExtractCyto(filt, force) ==
    LET r == PerSampleMetaRun("extract_cyto", json, metaCyto, filt, force)
    IN  /\ metaCyto' = r.done
        /\ last' = Command("extract_cyto", filt, force, FALSE, r.outcome,
                           r.rewrote, {})
        /\ UNCHANGED <<json, listed, instMeta, workCyto, workPulses, metaPulses,
                       images, imgFeat, ecoDir, eco, call, ret, remote, up,
                   samplesCsv, pool>>

SummarisePulses(filt, force) ==
    LET r == PerSampleMetaRun("summarise_pulses", json, metaPulses, filt, force)
    IN  /\ metaPulses' = r.done
        /\ last' = Command("summarise_pulses", filt, force, FALSE, r.outcome,
                           r.rewrote, {})
        /\ UNCHANGED <<json, listed, instMeta, workCyto, workPulses, metaCyto,
                       images, imgFeat, ecoDir, eco, call, ret, remote, up,
                   samplesCsv, pool>>

ExtractImages(filt, force) ==
    \E order \in Orders(get_sample_files(json, filt)) :
        LET r == ExtractImagesRun(json, images, order, force)
        IN  /\ images' = r.images
            /\ last' = Command("extract_images", filt, force, FALSE, r.outcome,
                               r.rewrote, {})
            /\ UNCHANGED <<json, listed, instMeta, workCyto, workPulses, metaCyto,
                           metaPulses, imgFeat, ecoDir, eco, call, ret, remote, up,
                   samplesCsv, pool>>

ComputeFeatures(filt, force) ==
    LET r == ComputeFeaturesRun(images, imgFeat, filt, force)
    IN  /\ imgFeat' = r.imgFeat
        /\ last' = Command("compute_features", filt, force, FALSE, r.outcome,
                           r.rewrote, {})
        /\ UNCHANGED <<json, listed, instMeta, workCyto, workPulses, metaCyto,
                       metaPulses, images, ecoDir, eco, call, ret, remote, up,
                   samplesCsv, pool>>

Prepare(filt, force, only_tsv) ==
    LET r == PrepareRun(listed, instMeta, workCyto, workPulses, images, imgFeat,
                        ecoDir, eco, filt, force, only_tsv)
    IN  /\ ecoDir' = r.ecoDir /\ eco' = r.eco
        /\ last' = [Command("prepare", filt, force, only_tsv, r.outcome,
                            r.rewrote, r.bundled) EXCEPT !.reported = r.reported]
        /\ UNCHANGED <<json, listed, instMeta, workCyto, workPulses, metaCyto,
                       metaPulses, images, imgFeat, call, ret, remote, up,
                   samplesCsv, pool>>

\* Whether a stage ended by raising.
Raised(outcome) ==
    outcome \in {"ImportError", "TypeError", "CytoError", "KeyError",
                 "Exception", "FileNotFoundError", "IndexError"}

PipelineModules ==
    {"convert", "extract_meta", "extract_cyto", "summarise_pulses",
     "extract_images", "compute_features", "prepare"}

\* cli.all: import every command module, then run the stages in order; the
\* first stage that raises ends the command. upload.run, which follows
\* prepare, acts on the remote server only.
All(force) ==
    IF \E m \in PipelineModules : ImportFails(m)
    THEN /\ last' = Command("all", 0, force, FALSE, "ImportError", {}, {})
         /\ UNCHANGED <<json, listed, instMeta, workCyto, workPulses, metaCyto,
                        metaPulses, images, imgFeat, ecoDir, eco, call, ret, remote, up,
                   samplesCsv, pool>>
    ELSE LET c == ConvertRun(json, listed, 0, force)
         IN  \E order \in Orders(get_sample_files(c.json, 0)) :
             LET m  == ExtractMetaRun(c.json, instMeta, order)
                 x  == PerSampleMetaRun("extract_cyto", c.json, metaCyto, 0, force)
                 s  == PerSampleMetaRun("summarise_pulses", c.json, metaPulses, 0,
                                        force)
                 i  == ExtractImagesRun(c.json, images, order, force)
                 f  == ComputeFeaturesRun(i.images, imgFeat, 0, force)
                 e  == PrepareRun(c.listed, m.im, workCyto, workPulses, i.images,
                                  f.imgFeat, ecoDir, eco, 0, force, FALSE)
                 n  == IF Raised(c.outcome) THEN 0
                       ELSE IF Raised(m.outcome) THEN 1
                       ELSE IF Raised(x.outcome) THEN 2
                       ELSE IF Raised(s.outcome) THEN 3
                       ELSE IF Raised(i.outcome) THEN 4
                       ELSE IF Raised(f.outcome) THEN 5
                       ELSE 7
                 outs == <<c.outcome, m.outcome, x.outcome, s.outcome,
                           i.outcome, f.outcome, e.outcome>>
             IN  /\ json' = c.json /\ listed' = c.listed
                 /\ instMeta' = IF n >= 2 THEN m.im ELSE instMeta
                 /\ metaCyto' = IF n >= 3 THEN x.done ELSE metaCyto
                 /\ metaPulses' = IF n >= 4 THEN s.done ELSE metaPulses
                 /\ images' = IF n >= 4 THEN i.images ELSE images
                 /\ imgFeat' = IF n >= 6 THEN f.imgFeat ELSE imgFeat
                 /\ ecoDir' = IF n >= 7 THEN e.ecoDir ELSE ecoDir
                 /\ eco' = IF n >= 7 THEN e.eco ELSE eco
                 /\ last' = Command("all", 0, force, FALSE,
                                    IF n >= 7 THEN e.outcome ELSE outs[n + 1],
                                    {}, IF n >= 7 THEN e.bundled ELSE {})
                 /\ UNCHANGED <<workCyto, workPulses, call, ret, remote, up,
                   samplesCsv, pool>>

\* The external converter (Cyz2Json) writes or replaces converted/<s>.json.
JsonDocs ==
    {[kind |-> "ok", ver |-> v] : v \in 1..MaxVer}
        \cup {[kind |-> "nosection", ver |-> 0], [kind |-> "malformed", ver |-> 0]}

ConverterWrites(s, doc) ==
    /\ json[s] # doc
    /\ json' = [json EXCEPT ![s] = doc]
    /\ last' = [NoCommand EXCEPT !.cmd = "converter"]
    /\ UNCHANGED <<listed, instMeta, workCyto, workPulses, metaCyto, metaPulses,
                   images, imgFeat, ecoDir, eco, call, ret, remote, up,
                   samplesCsv, pool>>

\* compute_features is not inside pool.map.
NoPool == [active |-> FALSE, sample |-> 0, force |-> FALSE, args |-> <<>>,
           running |-> {}, results |-> <<>>, returned |-> <<>>]

\* meta/samples.csv is not there.
NoCsv == [exists |-> FALSE, fields |-> {}, rows |-> <<>>]

\* No server in sight, upload not running.
NoRemote == [samples |-> {}, job |-> "none", of |-> 0, imported |-> {}]
NoUpload == [pc |-> "idle", token |-> 0, zips |-> <<>>, existing |-> {},
             server_path |-> "", job_id |-> 0, steps |-> <<>>,
             uploaded |-> {}, result |-> "", job_info |-> ""]

NoCall == [fn |-> "none"]
NoRet == [done |-> FALSE]

InitPure(c) ==
    /\ json = [s \in Samples |-> NoJson]
    /\ listed = {}
    /\ instMeta = NoTable
    /\ workCyto = {} /\ workPulses = {} /\ metaCyto = {} /\ metaPulses = {}
    /\ images = [s \in Samples |-> NoDir]
    /\ imgFeat = [s \in Samples |-> NoTable]
    /\ ecoDir = FALSE /\ eco = NoFiles
    /\ last = NoCommand
    /\ call = c /\ ret = NoRet
    /\ remote = NoRemote /\ up = NoUpload
    /\ samplesCsv = NoCsv
    /\ pool = NoPool

InitMeta ==
    /\ json \in [Samples -> JsonDocs \cup {NoJson}]
    /\ listed = Samples
    /\ instMeta = NoTable
    /\ workCyto = {} /\ workPulses = {} /\ metaCyto = {} /\ metaPulses = {}
    /\ images = [s \in Samples |-> NoDir]
    /\ imgFeat = [s \in Samples |-> NoTable]
    /\ ecoDir = FALSE /\ eco = NoFiles
    /\ last = NoCommand
    /\ call = NoCall /\ ret = NoRet
    /\ remote = NoRemote /\ up = NoUpload
    /\ samplesCsv = NoCsv
    /\ pool = NoPool

NextMeta ==
    \/ \E filt \in Filters : ExtractMeta(filt)
    \/ \E s \in Samples, doc \in JsonDocs : ConverterWrites(s, doc)

SpecMeta == InitMeta /\ [][NextMeta]_vars

(***************************************************************************)
(* Spec: a project whose samples were converted by the external converter  *)
(* and listed in meta/samples.csv. work/ holds the cytometric and pulse    *)
(* tables of all samples or of none: no stage of this code writes them     *)
(* (extract_cyto and summarise_pulses write under meta/).                  *)
(***************************************************************************)
Init ==
    /\ json = [s \in Samples |-> [kind |-> "ok", ver |-> 1]]
    /\ listed = Samples
    /\ instMeta = NoTable
    /\ \E w \in {{}, Samples} : workCyto = w /\ workPulses = w
    /\ metaCyto = {} /\ metaPulses = {}
    /\ images = [s \in Samples |-> NoDir]
    /\ imgFeat = [s \in Samples |-> NoTable]
    /\ ecoDir = FALSE /\ eco = NoFiles
    /\ last = NoCommand
    /\ call = NoCall /\ ret = NoRet
    /\ remote = NoRemote /\ up = NoUpload
    /\ samplesCsv = NoCsv
    /\ pool = NoPool

Next ==
    \/ \E filt \in Filters, force \in BOOLEAN : Convert(filt, force)
    \/ \E filt \in Filters : ExtractMeta(filt)
    \/ \E filt \in Filters, force \in BOOLEAN : ExtractCyto(filt, force)
    \/ \E filt \in Filters, force \in BOOLEAN : SummarisePulses(filt, force)
    \/ \E filt \in Filters, force \in BOOLEAN : ExtractImages(filt, force)
    \/ \E filt \in Filters, force \in BOOLEAN : ComputeFeatures(filt, force)
    \/ \E filt \in Filters, force, only_tsv \in BOOLEAN :
            Prepare(filt, force, only_tsv)
    \/ \E force \in BOOLEAN : All(force)

Spec == Init /\ [][Next]_vars

(***************************************************************************)
(* C9: the cumulative metadata artifact.                                   *)
(***************************************************************************)
RowsOf(table, s) ==
    {i \in DOMAIN table.rows : table.rows[i].sample_id = s}

OneRowPerSample == \A s \in Samples : Cardinality(RowsOf(instMeta, s)) <= 1

SortedBySampleId ==
    \A i, j \in DOMAIN instMeta.rows :
        i < j => instMeta.rows[i].sample_id < instMeta.rows[j].sample_id

RowSet(table, s) == {table.rows[i] : i \in RowsOf(table, s)}

\* A run of extract_meta that completes leaves, for every sample whose
\* document it extracted a row from, exactly that new row, and every other
\* sample's rows as they were; a run that fails leaves the artifact alone.
ExtractMetaStep ==
    last'.cmd = "extract_meta" =>
        IF last'.outcome = "ok"
        THEN \A s \in Samples :
                IF s \in get_sample_files(json, last'.filt) /\ json[s].kind = "ok"
                THEN RowSet(instMeta', s)
                        = {[sample_id |-> s, val |-> <<"inst", s, json[s].ver>>]}
                ELSE RowSet(instMeta', s) = RowSet(instMeta, s)
        ELSE instMeta' = instMeta

\* C9: after any sequence of extract_meta runs with any --sample filters
\* (and any re-conversions in between) the metadata artifact holds at most
\* one row per sample_id, its rows are sorted by sample_id, each sample
\* extracted by the latest run has the newly extracted row and the rows of
\* the other samples are unchanged.
C9_CumulativeMetadata ==
    /\ [](OneRowPerSample /\ SortedBySampleId)
    /\ [][ExtractMetaStep]_vars

\* A filtered re-run that replaced sample 1's row by its newer version and
\* kept sample 2's older row.
C9_Witness ==
    /\ last.cmd = "extract_meta" /\ last.outcome = "ok" /\ last.filt = 1
    /\ last.rewrote # {}
    /\ instMeta.rows = <<[sample_id |-> 1, val |-> <<"inst", 1, 2>>],
                         [sample_id |-> 2, val |-> <<"inst", 2, 1>>]>>

(***************************************************************************)
(* C2: _merge_sample_data on its own. The cytometric table is any table of *)
(* distinct objects in any order; the image-feature and pulse tables hold  *)
(* any subset of the objects, one row each, sorted by object_id as their   *)
(* producers write them (compute_features.py:214, summarise_pulses.py:131);*)
(* samples.csv has the sample's row or not; the instrument metadata has    *)
(* its one row (prepare validates it).                                     *)
(***************************************************************************)
Objects == 1..MaxObjects

InjectiveSeqs(S) == UNION {Orders(T) : T \in SUBSET S}

MergeCalls ==
    {[fn |-> "merge", cyto |-> CytoRows(1, o), img |-> ObjectRows("img", 1, f),
      pulses |-> ObjectRows("pulse", 1, q), sample_meta |-> c,
      instrument_meta |-> <<[sample_id |-> 1, val |-> <<"inst", 1, 1>>]>>] :
        o \in InjectiveSeqs(Objects), f \in SUBSET Objects, q \in SUBSET Objects,
        c \in {<<>>, <<CustomRow(1)>>}}

ApplyMerge ==
    /\ call.fn = "merge" /\ ~ret.done
    /\ ret' = [done |-> TRUE,
               val |-> MergeSampleData(call.cyto, call.img, call.pulses,
                                       call.sample_meta, call.instrument_meta)]
    /\ UNCHANGED <<projectVars, call>>

InitMerge == \E c \in MergeCalls : InitPure(c)

SpecMerge == InitMerge /\ [][ApplyMerge]_vars

\* The cell the left join must give row `l` for the table `right`.
CellOf(l, right) ==
    IF \E j \in DOMAIN right : right[j].object_id = l.object_id
    THEN right[CHOOSE j \in DOMAIN right : right[j].object_id = l.object_id].val
    ELSE NA

\* C2: the merged table has exactly one row per row of the cytometric
\* table, in the same order and with the same object_id; an object absent
\* from the image-feature (pulse) table keeps its row with that column
\* missing, an object present there gets that table's value.
C2_EveryObjectSurvives ==
    (call.fn = "merge" /\ ret.done) =>
        LET df == ret.val.df
        IN  /\ ret.val.error = ""
            /\ Len(df) = Len(call.cyto)
            /\ \A i \in DOMAIN df :
                  /\ df[i].object_id = call.cyto[i].object_id
                  /\ df[i].val = call.cyto[i].val
                  /\ df[i].img = CellOf(call.cyto[i], call.img)
                  /\ df[i].pulse = CellOf(call.cyto[i], call.pulses)

\* Cytometric objects {1,2,3}, image features for {1,2} only: three rows,
\* the third without image features.
C2_Witness ==
    /\ call.fn = "merge" /\ ret.done
    /\ call.cyto = CytoRows(1, <<1, 2, 3>>)
    /\ call.img = ObjectRows("img", 1, {1, 2})
    /\ Len(ret.val.df) = 3
    /\ ret.val.df[3].img = NA /\ ret.val.df[1].img = <<"img", 1, 1>>


(***************************************************************************)
(* SpecPrepare: prepare on projects whose samples each lack at most one of *)
(* the five artifacts, or all of them the metadata because extract_meta    *)
(* never ran (extracted). The documents hold an image for the particles of *)
(* `pics`, so that extract_images wrote those files and compute_features   *)
(* their rows.                                                             *)
(***************************************************************************)
\* The artifact each sample lacks, "" for none.
Lacking == [Samples -> ArtifactKinds \cup {""}]

InitPrepare ==
    \E lack \in Lacking, csv \in SUBSET Samples \ {{}}, pics \in SUBSET Particles,
       extracted \in BOOLEAN :
        LET rows == SortBySampleId(
                        MetadataRows([s \in Samples |->
                                         IF lack[s] = "meta" \/ ~extracted THEN NoJson
                                         ELSE [kind |-> "ok", ver |-> 1]],
                                     SortedSeq(Samples)))
        IN  /\ json = [s \in Samples |-> [kind |-> "ok", ver |-> 1]]
            /\ listed = csv
            /\ instMeta = [exists |-> rows # <<>>, rows |-> rows]
            /\ workCyto = {s \in Samples : lack[s] # "cyto"}
            /\ workPulses = {s \in Samples : lack[s] # "pulses"}
            /\ metaCyto = {} /\ metaPulses = {}
            /\ images = [s \in Samples |->
                            IF lack[s] = "images" THEN NoDir
                            ELSE [exists |-> TRUE, files |-> pics,
                                  bad |-> {}]]
            /\ imgFeat = [s \in Samples |->
                             IF lack[s] = "imgfeat" THEN NoTable
                             ELSE [exists |-> TRUE,
                                   rows |-> FeatureRows(s, pics)]]
            /\ ecoDir = FALSE /\ eco = NoFiles
            /\ last = NoCommand
            /\ call = NoCall /\ ret = NoRet
            /\ remote = NoRemote /\ up = NoUpload
            /\ samplesCsv = NoCsv
            /\ pool = NoPool

NextPrepare ==
    \E filt \in Filters, force, only_tsv \in BOOLEAN : Prepare(filt, force, only_tsv)

SpecPrepare == InitPrepare /\ [][NextPrepare]_vars

\* The requested batch of a prepare command: the --sample, or every sample
\* of samples.csv.
Batch(filt) == IF filt = 0 THEN listed ELSE {filt}

HasMetaRow(s) == \E i \in DOMAIN instMeta.rows : instMeta.rows[i].sample_id = s

Complete(s) ==
    /\ HasMetaRow(s) /\ s \in workCyto /\ s \in workPulses
    /\ images[s].exists /\ imgFeat[s].exists

\* C1: a prepare run whose batch has a sample lacking one of the five
\* artifacts ends with an error and leaves ecotaxa/ as it was: not created,
\* no file of it added, replaced or removed.
C1_FailFast ==
    [][(\E s \in Batch(last'.filt) : ~Complete(s))
          => /\ last'.outcome = "CytoError"
             /\ ecoDir' = ecoDir /\ eco' = eco]_vars

\* A batch of one complete and one incomplete sample was refused and
\* ecotaxa/ does not exist.
C1_Witness ==
    /\ last.cmd = "prepare" /\ last.filt = 0 /\ last.outcome = "CytoError"
    /\ \E s1, s2 \in listed : Complete(s1) /\ ~Complete(s2)
    /\ ~ecoDir /\ eco = NoFiles

\* C10: after a prepare run that archives samples, each archived sample has
\* its ZIP in ecotaxa/ and not its TSV, and no image copy is left there.
C10_OnlyArchiveRemains ==
    (last.cmd = "prepare" /\ ~last.only_tsv)
        => \A s \in last.bundled :
              /\ Zip(s) \in DOMAIN eco
              /\ Tsv(s) \notin DOMAIN eco
              /\ \A n \in DOMAIN eco : n[1] # "png"

\* A sample with images was archived: its table and every image copy are
\* members of the archive.
C10_Witness ==
    /\ last.cmd = "prepare" /\ ~last.only_tsv /\ last.outcome = "ok"
    /\ \E s \in last.bundled :
          /\ images[s].files # {}
          /\ eco[Zip(s)].members = {Tsv(s)} \cup {Png(p) : p \in images[s].files}

(***************************************************************************)
(* C4, C8: the stages and the whole pipeline, under Spec.                  *)
(***************************************************************************)
Stages ==
    {"convert", "extract_meta", "extract_cyto", "summarise_pulses",
     "extract_images", "compute_features", "prepare"}

\* C4: a stage run without the force flag writes again no output that
\* already existed.
C4_NoRewriteWithoutForce ==
    (last.cmd \in Stages /\ ~last.force) => last.rewrote = {}

\* C8: after the whole pipeline has run, every sample has an archive of one
\* table and one image per particle, the table with a header row, a type
\* row and one data row per particle.
C8_PipelineDelivers ==
    last.cmd = "all"
        => /\ last.outcome = "ok"
           /\ \A s \in Samples :
                 /\ Zip(s) \in DOMAIN eco
                 /\ eco[Zip(s)].members = {Tsv(s)} \cup {Png(p) : p \in Particles}
                 /\ Len(eco[Zip(s)].table.header) = 2
                 /\ Len(eco[Zip(s)].table.rows) = NParticles


(***************************************************************************)
(* SpecTsv: _prepare_ecotaxa_tsv on merged tables of many columns. The     *)
(* merged table starts with sample_id and object_id (the cytometric        *)
(* table), goes on with the other object columns, one of which may have a  *)
(* name ending in "_id", then acq_id and the sample, acq and process       *)
(* columns, and ends with process_id (prepare.py:284).                     *)
(***************************************************************************)
ClaimObjectColumns == 600

Numbered(grp, from, to, idAt) ==
    [i \in 1..(to - from + 1) |-> Col(grp, from + i - 1 = idAt, from + i - 1)]

MergedColumns(nobj, idAt, nproc, nsample) ==
    <<Col("sample", TRUE, 1), Col("object", TRUE, 1)>>
        \o Numbered("object", 2, nobj, idAt)
        \o <<Col("acq", TRUE, 1)>>
        \o Numbered("sample", 2, nsample, 0)
        \o Numbered("acq", 2, 3, 0)
        \o Numbered("process", 2, nproc, 0)
        \o <<Col("process", TRUE, 1)>>

TsvCalls ==
    {[fn |-> "tsv", columns |-> MergedColumns(nobj, idAt, nproc, nsample)] :
        nobj \in {ObjectLimit - 1, ObjectLimit, ObjectLimit + 1,
                  ClaimObjectColumns},
        idAt \in {0, 2, 3, ObjectLimit, ObjectLimit + 1, ObjectLimit + 2},
        nproc \in {ProcessLimit - 1, ProcessLimit, ProcessLimit + 1},
        nsample \in {2, SampleLimit + 1}}

ApplyTsv ==
    /\ call.fn = "tsv" /\ ~ret.done
    /\ ret' = [done |-> TRUE, tsv |-> PrepareEcotaxaTsv(call.columns)]
    /\ UNCHANGED <<projectVars, call>>

InitTsv == \E c \in TsvCalls : InitPure(c)

SpecTsv == InitTsv /\ [][ApplyTsv]_vars

ObjectColumns(cols) == StartsWith(cols, "object")

ObjectWarnings(w) == Len(SelectSeq(w, LAMBDA g : g = "object"))

\* The call of a table of more object columns than the limit has returned.
TruncatedObjects ==
    /\ call.fn = "tsv" /\ ret.done
    /\ Len(ObjectColumns(call.columns)) > ObjectLimit

JValue(t, n, s, items) == [t |-> t, n |-> n, s |-> s, items |-> items]

None == JValue("null", 0, <<>>, <<>>)
JInt(n) == JValue("int", n, <<>>, <<>>)
JStr(s) == JValue("str", 0, s, <<>>)
JList(xs) == JValue("list", 0, <<>>, [i \in DOMAIN xs |-> [k |-> <<>>, x |-> xs[i]]])
JDict(pairs) ==
    JValue("dict", 0, <<>>,
           [i \in DOMAIN pairs |-> [k |-> pairs[i][1], x |-> pairs[i][2]]])

\* The elements of a list, the values of an object.
Items(x) == [i \in DOMAIN x.items |-> x.items[i].x]

IsDict(x) == x.t = "dict"
IsList(x) == x.t = "list"

\* key in d
HasKey(d, key) == \E i \in DOMAIN d.items : d.items[i].k = key

\* d[key]
Lookup(d, key) == d.items[CHOOSE i \in DOMAIN d.items : d.items[i].k = key].x

\* d.get(key)
Get(d, key) == IF HasKey(d, key) THEN Lookup(d, key) ELSE None

\* sep.join(strings)
RECURSIVE Join(_, _)
Join(sep, strings) ==
    IF strings = <<>> THEN <<>>
    ELSE IF Len(strings) = 1 THEN strings[1]
    ELSE strings[1] \o sep \o Join(sep, Tail(strings))

\* s.split('.')
RECURSIVE Split(_)
Split(s) ==
    IF \A i \in DOMAIN s : s[i] # "." THEN <<s>>
    ELSE LET k == CHOOSE i \in DOMAIN s :
                     s[i] = "." /\ \A j \in 1..(i - 1) : s[j] # "."
         IN  <<SubSeq(s, 1, k - 1)>> \o Split(SubSeq(s, k + 1, Len(s)))

\* s.split('.', 1)
SplitFirst(s) ==
    IF \A i \in DOMAIN s : s[i] # "." THEN <<s>>
    ELSE LET k == CHOOSE i \in DOMAIN s :
                     s[i] = "." /\ \A j \in 1..(i - 1) : s[j] # "."
         IN  <<SubSeq(s, 1, k - 1), SubSeq(s, k + 1, Len(s))>>

\* part.endswith('[]')
EndsWithBrackets(part) ==
    Len(part) >= 2 /\ part[Len(part) - 1] = "[" /\ part[Len(part)] = "]"

\* The position of the part being looked at taken to be the first.
AlwaysFirst(parts, part) == 1

\* parts.index(part): the first position holding an equal string.
IndexOf(parts, part) ==
    CHOOSE i \in DOMAIN parts :
        parts[i] = part /\ \A j \in 1..(i - 1) : parts[j] # part

DigitChars == <<"0", "1", "2", "3", "4", "5", "6", "7", "8", "9">>

RECURSIVE Decimal(_)
Decimal(n) ==
    IF n < 10 THEN <<DigitChars[n + 1]>>
    ELSE Decimal(n \div 10) \o <<DigitChars[(n % 10) + 1]>>

\* repr(x), as str() writes the items of a list and the values of a dict.
RECURSIVE Repr(_)
Repr(x) ==
    CASE x.t = "null" -> <<"None">>
      [] x.t = "int" -> Decimal(x.n)
      [] x.t = "str" -> <<"'">> \o x.s \o <<"'">>
      [] x.t = "list" ->
            <<"[">> \o Join(<<",", " ">>,
                           [i \in DOMAIN x.items |-> Repr(x.items[i].x)])
                \o <<"]">>
      [] x.t = "dict" ->
            <<"{">> \o Join(<<",", " ">>,
                           [i \in DOMAIN x.items |->
                               <<"'">> \o x.items[i].k \o <<"'", ":", " ">>
                                   \o Repr(x.items[i].x)])
                \o <<"}">>

\* str(x)
Str(x) == IF x.t = "str" THEN x.s ELSE Repr(x)

(***************************************************************************)
(* extract_meta._get_json_item.                                            *)
(***************************************************************************)
RECURSIVE GetJsonItem(_, _)
RECURSIVE GetJsonItemLoop(_, _, _)

\* The for loop over path_parts from position i on, `current` as it stands.
GetJsonItemLoop(path_parts, i, current) ==
    IF i > Len(path_parts) THEN current
    ELSE IF current = None THEN None
    ELSE LET part == path_parts[i]
             key == SubSeq(part, 1, Len(part) - 2)
         IN  IF EndsWithBrackets(part)
             THEN IF IsDict(current) /\ HasKey(current, key)
                  THEN LET list_value == Lookup(current, key)
                           remaining_path ==
                               Join(<<".">>,
                                    SubSeq(path_parts,
                                           IndexOf(path_parts, part) + 1,
                                           Len(path_parts)))
                           results == [j \in DOMAIN list_value.items |->
                                          GetJsonItem(list_value.items[j].x,
                                                      remaining_path)]
                           found == SelectSeq(results, LAMBDA r : r # None)
                           values == IF remaining_path # <<>>
                                     THEN [j \in DOMAIN found |-> Str(found[j])]
                                     ELSE [j \in DOMAIN list_value.items |->
                                              Str(list_value.items[j].x)]
                       IN  IF IsList(list_value)
                           THEN IF values # <<>>
                                THEN JStr(Join(<<" ">>, values))
                                ELSE None
                           \* not a list: no branch is taken, the loop goes on
                           \* with the next part and the same `current`
                           ELSE GetJsonItemLoop(path_parts, i + 1, current)
                  ELSE None
             ELSE IF IsDict(current) /\ HasKey(current, part)
                  THEN GetJsonItemLoop(path_parts, i + 1, Lookup(current, part))
                  ELSE None

GetJsonItem(json_data, path) == GetJsonItemLoop(Split(path), 1, json_data)

(***************************************************************************)
(* extract_cyto._get_parameter_value.                                      *)
(***************************************************************************)
\* A dict whatever its description.
AnyDict(param_dict, description) == IsDict(param_dict)

\* isinstance(param_dict, dict) and param_dict.get('description') == description
ParameterMatches(param_dict, description) ==
    IsDict(param_dict) /\ Get(param_dict, <<"description">>) = JStr(description)

GetParameterValue(parameters, path) ==
    LET parts == SplitFirst(path)
        hits == SelectSeq(parameters, LAMBDA d : ParameterMatches(d, parts[1]))
    IN  IF Len(parts) # 2 THEN None
        ELSE IF hits = <<>> THEN None
        ELSE Get(hits[1], parts[2])

(***************************************************************************)
(* summarise_pulses._normalise_pulse. A float is a fraction [num, den] in  *)
(* lowest terms; 0/0 is NaN, as numpy computes it.                         *)
(***************************************************************************)
RECURSIVE Gcd(_, _)
Gcd(a, b) == IF b = 0 THEN a ELSE Gcd(b, a % b)

Float(v) == [num |-> v, den |-> 1]
NaN == [num |-> 0, den |-> 0]

\* a / b for a >= 0, b >= 0.
Divide(a, b) ==
    IF b = 0 THEN (IF a = 0 THEN NaN ELSE [num |-> 1, den |-> 0])
    ELSE [num |-> a \div Gcd(a, b), den |-> b \div Gcd(a, b)]

Min(values) == CHOOSE x \in Range(values) : \A y \in Range(values) : x <= y
Max(values) == CHOOSE x \in Range(values) : \A y \in Range(values) : x >= y

\* The test left out.
NeverConstant(values) == FALSE

\* max_val == min_val
IsConstant(values) == Max(values) = Min(values)

NormalisePulse(values) ==
    IF values = <<>> THEN [error |-> "ValueError", arr |-> <<>>]
    ELSE IF IsConstant(values)
    THEN [error |-> "", arr |-> [i \in DOMAIN values |-> Float(0)]]
    ELSE [error |-> "",
          arr |-> [i \in DOMAIN values |->
                      Divide(values[i] - Min(values), Max(values) - Min(values))]]


(***************************************************************************)
(* SpecItem: _get_json_item on documents of objects, lists, numbers,       *)
(* strings and nulls, and on the paths of up to MaxSegments segments       *)
(* "a", "b", "a[]", "b[]".                                                 *)
(***************************************************************************)
MaxSegments == 3

Segments == {<<"a">>, <<"b">>, <<"a", "[", "]">>, <<"b", "[", "]">>}

Paths ==
    {Join(<<".">>, segs) :
        segs \in UNION {[1..n -> Segments] : n \in 1..MaxSegments}}

Documents ==
    {JDict(<<<<<<"a">>, JInt(1)>>, <<<<"b">>, JInt(2)>>>>),
     JDict(<<<<<<"a">>, JList(<<JDict(<<<<<<"b">>, JInt(1)>>>>),
                                JDict(<<<<<<"b">>, JInt(2)>>>>)>>)>>,
             <<<<"b">>, JInt(3)>>>>),
     JDict(<<<<<<"a">>, JDict(<<<<<<"b">>, JList(<<JInt(1), JInt(2)>>)>>>>)>>,
             <<<<"b">>, None>>>>),
     JDict(<<<<<<"a">>, JList(<<>>)>>,
             <<<<"b">>, JDict(<<<<<<"a">>, JInt(5)>>>>)>>>>),
     JDict(<<<<<<"a">>, JList(<<JInt(1), None, JStr(<<"x">>)>>)>>>>),
     JDict(<<<<<<"b">>,
              JDict(<<<<<<"a">>, JList(<<JDict(<<<<<<"a">>, JInt(1)>>>>),
                                         JDict(<<<<<<"b">>,
                                                  JList(<<JInt(7)>>)>>>>)>>)>>>>)>>>>)}

ItemCalls == {[fn |-> "item", doc |-> d, path |-> q] : d \in Documents, q \in Paths}

ApplyItem ==
    /\ call.fn = "item" /\ ~ret.done
    /\ ret' = [done |-> TRUE, value |-> GetJsonItem(call.doc, call.path)]
    /\ UNCHANGED <<projectVars, call>>

InitItem == \E c \in ItemCalls : InitPure(c)

SpecItem == InitItem /\ [][ApplyItem]_vars

\* The value at a path: an object key descends into the object; "key[]"
\* descends into the list under the key and joins what its elements give
\* (themselves when the path ends there, the values at the rest of the path
\* otherwise); a missing key, a value that is not an object, a "key[]"
\* that is not a list, give no value.
RECURSIVE ValueAt(_, _)
ValueAt(x, parts) ==
    IF parts = <<>> THEN x
    ELSE LET part == Head(parts)
             key == SubSeq(part, 1, Len(part) - 2)
         IN  IF EndsWithBrackets(part)
             THEN IF IsDict(x) /\ HasKey(x, key) /\ IsList(Lookup(x, key))
                  THEN LET items == Items(Lookup(x, key))
                           at == [j \in DOMAIN items |->
                                     ValueAt(items[j], Tail(parts))]
                           found == IF Tail(parts) = <<>> THEN items
                                    ELSE SelectSeq(at, LAMBDA r : r # None)
                       IN  IF found = <<>> THEN None
                           ELSE JStr(Join(<<" ">>,
                                          [j \in DOMAIN found |-> Str(found[j])]))
                  ELSE None
             ELSE IF IsDict(x) /\ HasKey(x, part)
                  THEN ValueAt(Lookup(x, part), Tail(parts))
                  ELSE None

\* C5: _get_json_item returns the value at the path, and None exactly when
\* there is no value at the path.
C5_ReturnsValueAtPath ==
    (call.fn = "item" /\ ret.done)
        => ret.value = ValueAt(call.doc, Split(call.path))

(***************************************************************************)
(* SpecParam: _get_parameter_value on lists of up to MaxParams records:    *)
(* parameter records, one of them with a "." in its description and one    *)
(* with a "." in a field name, a record without description, and an entry  *)
(* that is not a record.                                                   *)
(***************************************************************************)
MaxParams == 2

Param(description, fields) == JDict(<<<<<<"description">>, JStr(description)>>>> \o fields)

Records ==
    {Param(<<"F">>, <<<<<<"length">>, JInt(1)>>, <<<<"total">>, JInt(2)>>>>),
     Param(<<"S">>, <<<<<<"length">>, JInt(3)>>>>),
     Param(<<"F", ".", "x">>, <<<<<<"length">>, JInt(4)>>>>),
     Param(<<"F">>, <<<<<<"x", ".", "length">>, JInt(6)>>,
                      <<<<"length">>, JInt(7)>>>>),
     JDict(<<<<<<"length">>, JInt(5)>>>>),
     JInt(8)}

ParamPaths ==
    {d \o <<".">> \o f :
        d \in {<<"F">>, <<"S">>, <<"Z">>, <<"F", ".", "x">>},
        f \in {<<"length">>, <<"total">>, <<"x", ".", "length">>}}
        \cup {<<"F">>}

ParamCalls ==
    {[fn |-> "param", parameters |-> ps, path |-> q] :
        ps \in UNION {[1..n -> Records] : n \in 0..MaxParams}, q \in ParamPaths}

ApplyParam ==
    /\ call.fn = "param" /\ ~ret.done
    /\ ret' = [done |-> TRUE,
               value |-> GetParameterValue(call.parameters, call.path)]
    /\ UNCHANGED <<projectVars, call>>

InitParam == \E c \in ParamCalls : InitPure(c)

SpecParam == InitParam /\ [][ApplyParam]_vars

\* The records of the list whose description is `description`.
Described(parameters, description) ==
    {i \in DOMAIN parameters :
        /\ parameters[i].t = "dict"
        /\ [k |-> <<"description">>, x |-> JStr(description)]
              \in Range(parameters[i].items)}

\* C6: for a path "<description>.<field>", the description being what
\* precedes the first ".", the result is the field of the record of that
\* description when exactly one record has it (None when the record has no
\* such field), and None when no record has it.
C6_UniqueMatchOrNone ==
    (call.fn = "param" /\ ret.done)
        => \A k \in DOMAIN call.path :
              (call.path[k] = "." /\ \A j \in 1..(k - 1) : call.path[j] # ".")
                  => LET description == SubSeq(call.path, 1, k - 1)
                         field == SubSeq(call.path, k + 1, Len(call.path))
                         m == Described(call.parameters, description)
                     IN  /\ Cardinality(m) = 1
                            => \A i \in m :
                                  \/ [k |-> field, x |-> ret.value]
                                        \in Range(call.parameters[i].items)
                                  \/ /\ ret.value = None
                                     /\ \A e \in Range(call.parameters[i].items) :
                                           e.k # field
                         /\ m = {} => ret.value = None

\* The one record described "S" follows a record of another description
\* and its length was returned.
C6_Witness ==
    /\ call.fn = "param" /\ ret.done
    /\ call.path = <<"S", ".", "length">>
    /\ Len(call.parameters) = 2
    /\ Described(call.parameters, <<"S">>) = {2}
    /\ Described(call.parameters, <<"F">>) = {1}
    /\ ret.value = JInt(3)

(***************************************************************************)
(* SpecPulse: _normalise_pulse on the waveforms of 1 to MaxPulseLen values *)
(* in 0..MaxPulseValue (run passes no empty waveform,                      *)
(* summarise_pulses.py:107).                                               *)
(***************************************************************************)
MaxPulseLen == 3
MaxPulseValue == 4

PulseCalls ==
    {[fn |-> "pulse", values |-> w] :
        w \in UNION {[1..n -> 0..MaxPulseValue] : n \in 1..MaxPulseLen}}

ApplyPulse ==
    /\ call.fn = "pulse" /\ ~ret.done
    /\ ret' = [done |-> TRUE, pulse |-> NormalisePulse(call.values)]
    /\ UNCHANGED <<projectVars, call>>

InitPulse == \E c \in PulseCalls : InitPure(c)

SpecPulse == InitPulse /\ [][ApplyPulse]_vars

\* C7: a waveform whose values are all equal is normalised, without error,
\* to as many zeros.
C7_ConstantGivesZeros ==
    (call.fn = "pulse" /\ ret.done
        /\ \A i, j \in DOMAIN call.values : call.values[i] = call.values[j])
        => /\ ret.pulse.error = ""
           /\ Len(ret.pulse.arr) = Len(call.values)
           /\ \A i \in DOMAIN ret.pulse.arr :
                 ret.pulse.arr[i] = [num |-> 0, den |-> 1]

\* Three equal non-zero values gave three zeros.
C7_Witness ==
    /\ call.fn = "pulse" /\ ret.done
    /\ call.values = <<MaxPulseValue, MaxPulseValue, MaxPulseValue>>
    /\ ret.pulse.arr = <<[num |-> 0, den |-> 1], [num |-> 0, den |-> 1],
                         [num |-> 0, den |-> 1]>>


(***************************************************************************)
(* C11: the archive against its table.                                     *)
(***************************************************************************)
\* The images among the members of an archive.
ArchivedImages(zip) == {n \in zip.members : n[1] = "png"}

\* The images the rows of a table name.
ReferencedImages(table) == {table.rows[i].img_file_name : i \in DOMAIN table.rows}

\* C11: the archive of every sample prepare archived holds one table and
\* exactly the images the img_file_name column of that table names.
C11_ArchiveHoldsReferencedImages ==
    (last.cmd = "prepare" /\ last.outcome = "ok")
        => \A s \in last.bundled :
              /\ Cardinality({n \in eco[Zip(s)].members : n[1] = "tsv"}) = 1
              /\ ArchivedImages(eco[Zip(s)]) = ReferencedImages(eco[Zip(s)].table)


(***************************************************************************)
(* upload.run, one action per request to the server, whose answer is any   *)
(* the client code distinguishes. `up` holds the position of run (pc), the *)
(* token (0 for None), the archives still to process, the samples the      *)
(* server listed, the answers kept for the current archive, the requests   *)
(* made for it (steps), the samples an upload was requested for, and how   *)
(* the last archive ended. `remote` holds the samples of the EcoTaxa       *)
(* project before the run, the state of the import job, its sample (of)    *)
(* and the samples imported by the run.                                    *)
(***************************************************************************)
JobStates == {"P", "R", "F", "E", "A"}

\* The other variables of the module, which upload never touches.
localVars == <<json, listed, instMeta, workCyto, workPulses, metaCyto,
               metaPulses, images, imgFeat, ecoDir, eco, last, call, ret,
               samplesCsv, pool>>

\* sorted(ecotaxa_dir.glob("ecotaxa_*.zip")), as sample ids.
ZipFiles(files) == SortedSeq({s \in Samples : Zip(s) \in DOMAIN files})

\* The archive is done with: on to the next one.
EndBundle(u, result) ==
    [u EXCEPT !.pc = "loop", !.zips = Tail(u.zips), !.result = result]

\* run up to the authentication: config.yaml and its project_id are read;
\* without them run returns.
UploadBegin(configured) ==
    /\ up.pc = "idle"
    /\ up' = [NoUpload EXCEPT !.pc = IF configured THEN "authenticate" ELSE "done",
                              !.result = IF configured THEN "" ELSE "noconfig"]
    /\ UNCHANGED <<localVars, remote>>

\* authenticate returns a token or None; with a token the archives are
\* listed, and run returns when there is none.
Authenticate(token) ==
    /\ up.pc = "authenticate"
    /\ up' = IF token = 0
             THEN [up EXCEPT !.pc = "done", !.result = "noauth"]
             ELSE IF ZipFiles(eco) = <<>>
             THEN [up EXCEPT !.pc = "done", !.token = token, !.result = "nozip"]
             ELSE [up EXCEPT !.pc = "samples", !.token = token,
                             !.zips = ZipFiles(eco)]
    /\ UNCHANGED <<localVars, remote>>

\* _get_project_samples: the orig_id of the samples of the project, or the
\* empty set when the request fails.
GetProjectSamples(ok) == IF ok THEN remote.samples ELSE {}

ListRemoteSamples(ok) ==
    /\ up.pc = "samples"
    /\ up' = [up EXCEPT !.pc = "loop", !.existing = GetProjectSamples(ok)]
    /\ UNCHANGED <<localVars, remote>>

\* The head of the loop: the end of run, a skipped archive, or an archive
\* to upload.
NextBundle ==
    /\ up.pc = "loop"
    /\ up' = IF up.zips = <<>> THEN [up EXCEPT !.pc = "done"]
             ELSE IF Head(up.zips) \in up.existing
             THEN [EndBundle(up, "skipped") EXCEPT !.steps = <<>>]
             ELSE [up EXCEPT !.pc = "upload", !.steps = <<>>,
                             !.server_path = "", !.job_id = 0]
    /\ UNCHANGED <<localVars, remote>>

\* upload_file: an error, an empty server path, or a server path.
UploadFile(errors, server_path) ==
    /\ up.pc = "upload"
    /\ LET u == [up EXCEPT !.steps = Append(@, "upload"),
                           !.uploaded = @ \cup {Head(up.zips)}]
       IN  up' = IF errors \/ server_path = ""
                 THEN EndBundle(u, "upload_failed")
                 ELSE [u EXCEPT !.pc = "import", !.server_path = server_path]
    /\ UNCHANGED <<localVars, remote>>

\* job_id <= 0: no job to monitor.
AnyJobId(job_id) == TRUE

JobStarted(job_id) == job_id > 0

\* import_file: an error, or a job id; the server starts the job whose id
\* it returns.
ImportFile(errors, job_id) ==
    /\ up.pc = "import"
    /\ LET u == [up EXCEPT !.steps = Append(@, "import")]
       IN  /\ up' = IF errors \/ ~JobStarted(job_id)
                    THEN EndBundle(u, "import_failed")
                    ELSE [u EXCEPT !.pc = "poll", !.job_id = job_id]
           /\ remote' = IF ~errors /\ job_id > 0
                        THEN [remote EXCEPT !.job = "P", !.of = Head(up.zips)]
                        ELSE remote
    /\ UNCHANGED localVars

\* The check of the terminal states that knows of the finished state only.
OnlyFinishedEnds(state) == IF state = "F" THEN "succeeded" ELSE ""

\* The check of the terminal states: what monitor_job returns on a state,
\* "" when it sleeps and polls again.
TerminalState(state) ==
    IF state = "F" THEN "succeeded"
    ELSE IF state = "E" THEN "failed"
    ELSE IF state = "A" THEN "failed"
    ELSE ""

\* One turn of the loop of monitor_job: get_job gives no answer (None), or
\* the state of the job.
PollJob(answered) ==
    /\ up.pc = "poll"
    /\ LET job_info == IF answered THEN remote.job ELSE "None"
           u == [up EXCEPT !.steps =
                              IF "poll" \in Range(@) THEN @ ELSE Append(@, "poll"),
                           !.job_info = job_info]
       IN  up' = IF ~answered THEN EndBundle(u, "failed")
                 ELSE IF TerminalState(job_info) # ""
                 THEN EndBundle(u, TerminalState(job_info))
                 ELSE u
    /\ UNCHANGED <<localVars, remote>>

\* The server works on the job: pending, running, then finished (the
\* sample is in the project), in error, or asking.
JobProgress(state) ==
    /\ \/ remote.job = "P" /\ state = "R"
       \/ remote.job = "R" /\ state \in {"F", "E", "A"}
    /\ remote' = [remote EXCEPT
                    !.job = state,
                    !.imported = IF state = "F" THEN @ \cup {remote.of} ELSE @]
    /\ UNCHANGED <<localVars, up>>

(***************************************************************************)
(* SpecUpload: upload on a project with archives of some samples and a     *)
(* server that already has some samples.                                   *)
(***************************************************************************)
ArchiveOf(s) ==
    [kind |-> "zip", members |-> {Tsv(s)} \cup {Png(q) : q \in Particles},
     table |-> TsvContent(CytoTable(s))]

InitUpload ==
    \E zipped \in SUBSET Samples, there \in SUBSET Samples :
        /\ json = [s \in Samples |-> [kind |-> "ok", ver |-> 1]]
        /\ listed = Samples
        /\ instMeta = NoTable
        /\ workCyto = {} /\ workPulses = {} /\ metaCyto = {} /\ metaPulses = {}
        /\ images = [s \in Samples |-> NoDir]
        /\ imgFeat = [s \in Samples |-> NoTable]
        /\ ecoDir = TRUE
        /\ eco = [n \in {Zip(s) : s \in zipped} |-> ArchiveOf(n[2])]
        /\ last = NoCommand
        /\ call = NoCall /\ ret = NoRet
        /\ remote = [NoRemote EXCEPT !.samples = there]
        /\ up = NoUpload
        /\ samplesCsv = NoCsv
        /\ pool = NoPool

NextUpload ==
    \/ \E configured \in BOOLEAN : UploadBegin(configured)
    \/ \E token \in {0, 1} : Authenticate(token)
    \/ \E ok \in BOOLEAN : ListRemoteSamples(ok)
    \/ NextBundle
    \/ \E errors \in BOOLEAN, server_path \in {"", "path"} :
            UploadFile(errors, server_path)
    \/ \E errors \in BOOLEAN, job_id \in {0, 1} : ImportFile(errors, job_id)
    \/ \E answered \in BOOLEAN : PollJob(answered)
    \/ \E state \in JobStates : JobProgress(state)

SpecUpload == InitUpload /\ [][NextUpload]_vars

\* C12: no upload (and so no import) is requested for an archive whose
\* sample is in the remote project.
C12_ExistingNeverUploaded ==
    \A s \in up.uploaded : s \notin remote.samples

\* C13: the requests made for an archive are, in this order, its upload,
\* the start of its import and the polling of its job: an upload only with
\* a token, an import only with the server path of the upload, polling
\* only with a job id greater than 0.
C13_RemoteStepsInOrder ==
    /\ \E n \in 0..3 : up.steps = SubSeq(<<"upload", "import", "poll">>, 1, n)
    /\ "upload" \in Range(up.steps) => up.token # 0
    /\ "import" \in Range(up.steps) => up.server_path # ""
    /\ "poll" \in Range(up.steps) => up.job_id > 0
    /\ up.pc \in {"upload", "import", "poll"} => up.token # 0
    /\ up.pc = "import" => up.steps = <<"upload">> /\ up.server_path # ""
    /\ up.pc = "poll" => up.job_id > 0 /\ SubSeq(up.steps, 1, 2) = <<"upload", "import">>

\* The job of an archive is being polled after its upload and its import.
C13_Witness ==
    /\ up.pc = "poll" /\ up.steps = <<"upload", "import", "poll">>
    /\ up.token = 1 /\ up.server_path = "path" /\ up.job_id = 1
    /\ remote.job = "R"


(***************************************************************************)
(* SpecExtract: extract_meta and extract_images on batches whose documents *)
(* are well formed, malformed, or without the section asked for.           *)
(***************************************************************************)
InitExtract ==
    /\ json \in [Samples -> {[kind |-> "ok", ver |-> 1],
                             [kind |-> "malformed", ver |-> 0],
                             [kind |-> "nosection", ver |-> 0]}]
    /\ listed = Samples
    /\ instMeta = NoTable
    /\ workCyto = {} /\ workPulses = {} /\ metaCyto = {} /\ metaPulses = {}
    /\ images = [s \in Samples |-> NoDir]
    /\ imgFeat = [s \in Samples |-> NoTable]
    /\ ecoDir = FALSE /\ eco = NoFiles
    /\ last = NoCommand
    /\ call = NoCall /\ ret = NoRet
    /\ remote = NoRemote /\ up = NoUpload
    /\ samplesCsv = NoCsv
    /\ pool = NoPool

NextExtract ==
    \/ \E filt \in Filters : ExtractMeta(filt)
    \/ \E filt \in Filters, force \in BOOLEAN : ExtractImages(filt, force)

SpecExtract == InitExtract /\ [][NextExtract]_vars

\* C14: after extract_meta or extract_images ran on the whole batch, every
\* sample whose document is well formed has its output: its row of
\* metadata, its images.
C14_WellFormedSamplesProcessed ==
    \A s \in Samples :
        json[s].kind = "ok" =>
            /\ (last.cmd = "extract_meta" /\ last.filt = 0) => HasMetaRow(s)
            /\ (last.cmd = "extract_images" /\ last.filt = 0)
                  => images[s].exists /\ images[s].files = ImageFiles(s)


(***************************************************************************)
(* C15: what prepare's validation reports.                                 *)
(***************************************************************************)
Lacks(s, kind) ==
    CASE kind = "meta" -> ~HasMetaRow(s)
      [] kind = "cyto" -> s \notin workCyto
      [] kind = "pulses" -> s \notin workPulses
      [] kind = "images" -> ~images[s].exists
      [] kind = "imgfeat" -> ~imgFeat[s].exists

\* C15: when the validation of prepare ended the run, it reported, for the
\* samples of the batch, exactly the artifacts that are missing.
C15_ReportsExactlyTheMissing ==
    (/\ last.cmd = "prepare" /\ last.outcome = "CytoError"
     /\ Batch(last.filt) \subseteq listed)
        => \A s \in Batch(last.filt), kind \in ArtifactKinds :
              <<s, kind>> \in last.reported <=> Lacks(s, kind)


(***************************************************************************)
(* C16: outputs are absent or complete.  The image directory of a sample   *)
(* is complete when it holds the images of its document: all of them for a *)
(* well-formed document, none for a document without images.               *)
(***************************************************************************)
CompleteImages(s) ==
    \/ json[s].kind = "ok" /\ images[s].files = ImageFiles(s)
    \/ json[s].kind = "nosection" /\ images[s].files = {}

\* C16: an image directory that exists, which a run without force skips as
\* already done, is complete, also after extract_images failed partway.
C16_OutputsAbsentOrComplete ==
    \A s \in Samples : images[s].exists => CompleteImages(s)


(***************************************************************************)
(* compute_features over image directories where some images cannot be     *)
(* processed. A table of image features that exists was written by an      *)
(* earlier run, over the images the directory held then.                   *)
(***************************************************************************)
InitFeatures ==
    /\ \E dirs \in [Samples -> {NoDir} \cup
                       {[exists |-> TRUE, files |-> f, bad |-> b] :
                           f \in SUBSET Particles, b \in SUBSET Particles}] :
          /\ \A s \in Samples : dirs[s].bad \subseteq dirs[s].files
          /\ images = dirs
    /\ \E before \in [Samples -> SUBSET Particles] :
          imgFeat = [s \in Samples |->
                        IF before[s] = {} THEN NoTable
                        ELSE [exists |-> TRUE,
                              rows |-> FeatureRows(s, before[s])]]
    /\ json = [s \in Samples |-> [kind |-> "ok", ver |-> 1]]
    /\ listed = Samples
    /\ instMeta = NoTable
    /\ workCyto = {} /\ workPulses = {}
    /\ metaCyto = FALSE /\ metaPulses = FALSE
    /\ ecoDir = FALSE /\ eco = NoFiles
    /\ last = NoCommand
    /\ call = NoCall /\ ret = NoRet
    /\ remote = NoRemote /\ up = NoUpload
    /\ samplesCsv = NoCsv
    /\ pool = NoPool

NextFeatures == \E filt \in Filters, force \in BOOLEAN : ComputeFeatures(filt, force)

SpecFeatures == InitFeatures /\ [][NextFeatures]_vars

\* C17: a run of compute_features ends normally, and the table of every
\* sample it processes (directory with images, table absent or --force)
\* holds afterwards one row for each image that succeeded and none for the
\* images that failed.
C17_OneRowPerSucceededImage ==
    [][last'.cmd = "compute_features" =>
          /\ last'.outcome \in {"ok", "nodirs"}
          /\ \A s \in Samples :
                (/\ last'.filt \in {0, s}
                 /\ images[s].exists /\ images[s].files # {}
                 /\ last'.force \/ ~imgFeat[s].exists)
                    => imgFeat'[s].rows =
                           FeatureRows(s, images[s].files \ images[s].bad)]_vars


(***************************************************************************)
(* C18: prepare without --force and the outputs that exist.                *)
(***************************************************************************)
SampleOutputs == {Tsv(s) : s \in Samples} \cup {Zip(s) : s \in Samples}

\* C18: over any sequence of prepare runs, with or without --only-tsv, a
\* run without --force leaves every existing ecotaxa_<sample>.tsv and
\* ecotaxa_<sample>.zip in place with its content.
C18_NoForceKeepsOutputs ==
    [][(last'.cmd = "prepare" /\ ~last'.force) =>
          \A n \in SampleOutputs \cap DOMAIN eco :
              n \in DOMAIN eco' /\ eco'[n] = eco[n]]_vars


(***************************************************************************)
(* C19: the order of the columns of every prefix group.                    *)
(***************************************************************************)
GroupLimits ==
    <<[grp |-> "object", limit |-> ObjectLimit],
      [grp |-> "process", limit |-> ProcessLimit],
      [grp |-> "acq", limit |-> AcqLimit],
      [grp |-> "sample", limit |-> SampleLimit]>>

FirstK(cols, k) == SubSeq(cols, 1, IF k < Len(cols) THEN k ELSE Len(cols))

IdColumnsFirst(cols) ==
    SelectSeq(cols, LAMBDA c : c.id) \o SelectSeq(cols, LAMBDA c : ~c.id)

RECURSIVE Descend(_, _)
Descend(x, keys) ==
    IF keys = <<>> THEN x
    ELSE IF IsDict(x) /\ HasKey(x, Head(keys))
    THEN Descend(Lookup(x, Head(keys)), Tail(keys))
    ELSE None

HasDescent(parts) == \E i \in DOMAIN parts : EndsWithBrackets(parts[i])

FirstDescent(parts) ==
    CHOOSE i \in DOMAIN parts :
        /\ EndsWithBrackets(parts[i])
        /\ \A j \in 1..(i - 1) : ~EndsWithBrackets(parts[j])

DescentKey(parts) ==
    SubSeq(parts[FirstDescent(parts)], 1, Len(parts[FirstDescent(parts)]) - 2)

DescentOwner(doc, parts) == Descend(doc, SubSeq(parts, 1, FirstDescent(parts) - 1))

\* The call has returned and its path descends into a list L.
OverList ==
    /\ call.fn = "item" /\ ret.done
    /\ LET parts == Split(call.path)
       IN  /\ HasDescent(parts)
           /\ IsDict(DescentOwner(call.doc, parts))
           /\ HasKey(DescentOwner(call.doc, parts), DescentKey(parts))
           /\ IsList(Lookup(DescentOwner(call.doc, parts), DescentKey(parts)))

ListL == Items(Lookup(DescentOwner(call.doc, Split(call.path)),
                      DescentKey(Split(call.path))))

Remainder ==
    SubSeq(Split(call.path), FirstDescent(Split(call.path)) + 1,
           Len(Split(call.path)))

\* What the elements of L give at the remainder of the path, the None left out.
Yielded ==
    LET results == [j \in DOMAIN ListL |->
                       GetJsonItem(ListL[j], Join(<<".">>, Remainder))]
    IN  SelectSeq(results, LAMBDA r : r # None)

SpaceJoined(xs) == JStr(Join(<<" ">>, [j \in DOMAIN xs |-> Str(xs[j])]))

MaxPixels == 7

RECURSIVE Label(_)
Label(cleaned) ==
    IF cleaned = <<>> THEN <<>>
    ELSE LET n == Len(cleaned)
             before == Label(SubSeq(cleaned, 1, n - 1))
             top == IF before = <<>> THEN 0 ELSE Max(before)
         IN  before \o <<IF ~cleaned[n] THEN 0
                         ELSE IF n > 1 /\ cleaned[n - 1] THEN before[n - 1]
                         ELSE top + 1>>

\* measure.regionprops: one region per label, in label order, with the
\* slice of its bounding box.
RegionProps(labeled) ==
    [l \in 1..Max(labeled) |->
        LET at == {i \in DOMAIN labeled : labeled[i] = l}
        IN  [label |-> l,
             slice |-> [from |-> CHOOSE i \in at : \A j \in at : i <= j,
                        to |-> CHOOSE i \in at : \A j \in at : i >= j]]]

\* np.sum(x._label_image[x._slice] == x.label)
FastParticleArea(labeled, x) ==
    Cardinality({i \in x.slice.from..x.slice.to : labeled[i] = x.label})

\* max(regions, key) keeping the last of the items of the largest key.
PyMaxLast(labeled, regions) ==
    regions[CHOOSE i \in DOMAIN regions :
               /\ \A j \in DOMAIN regions :
                     FastParticleArea(labeled, regions[j])
                        <= FastParticleArea(labeled, regions[i])
               /\ \A j \in DOMAIN regions :
                     j > i => FastParticleArea(labeled, regions[j])
                                 < FastParticleArea(labeled, regions[i])]

\* max(regions, key=...): the first of the items of the largest key.
PyMax(labeled, regions) ==
    regions[CHOOSE i \in DOMAIN regions :
               /\ \A j \in DOMAIN regions :
                     FastParticleArea(labeled, regions[j])
                        <= FastParticleArea(labeled, regions[i])
               /\ \A j \in DOMAIN regions :
                     j < i => FastParticleArea(labeled, regions[j])
                                 < FastParticleArea(labeled, regions[i])]

NoMask == <<>>

SegmentParticle(cleaned) ==
    LET labeled == Label(cleaned)
    IN  IF Max(labeled) = 0 THEN NoMask
        ELSE IF RegionProps(labeled) = <<>> THEN NoMask
        ELSE LET largest_region == PyMax(labeled, RegionProps(labeled))
             IN  [i \in DOMAIN labeled |-> labeled[i] = largest_region.label]

SegmentCalls ==
    {[fn |-> "segment", cleaned |-> img] :
        img \in UNION {[1..n -> BOOLEAN] : n \in 1..MaxPixels}}

ApplySegment ==
    /\ call.fn = "segment" /\ ~ret.done
    /\ ret' = [done |-> TRUE, mask |-> SegmentParticle(call.cleaned)]
    /\ UNCHANGED <<projectVars, call>>

InitSegment == \E c \in SegmentCalls : InitPure(c)

SpecSegment == InitSegment /\ [][ApplySegment]_vars

\* The components of an image: the maximal runs of set pixels, each the set
\* of its positions.
Components(img) ==
    {run \in {a..b : a \in DOMAIN img, b \in DOMAIN img} :
        /\ run # {}
        /\ \A i \in run : img[i]
        /\ \A i \in DOMAIN img :
              (i \notin run /\ (i + 1 \in run \/ i - 1 \in run)) => ~img[i]}

First(run) == CHOOSE i \in run : \A j \in run : i <= j

\* C21: _segment_particle returns the mask of the component of the largest
\* pixel count, the one of the lowest label (the first in scan order) when
\* several share that count, and None when there is no component.
C21_LargestComponentLowestLabel ==
    (call.fn = "segment" /\ ret.done) =>
        IF Components(call.cleaned) = {} THEN ret.mask = NoMask
        ELSE \E c \in Components(call.cleaned) :
                /\ ret.mask = [i \in DOMAIN call.cleaned |-> i \in c]
                /\ \A d \in Components(call.cleaned) :
                      \/ Cardinality(d) < Cardinality(c)
                      \/ Cardinality(d) = Cardinality(c) /\ First(c) <= First(d)

\* Two components share the largest count and the first of them is returned.
C21_Witness ==
    /\ call.fn = "segment" /\ ret.done
    /\ \E c, d \in Components(call.cleaned) :
          /\ c # d /\ Cardinality(c) = Cardinality(d) /\ First(c) < First(d)
          /\ \A e \in Components(call.cleaned) : Cardinality(e) <= Cardinality(c)
          /\ ret.mask = [i \in DOMAIN call.cleaned |-> i \in c]


(***************************************************************************)
(* summarise_pulses.run, the rows of one document (sample 1).  A particle  *)
(* is its particleId and its pulseShapes; a pulse shape has a description  *)
(* (or none) and a list of values.                                         *)
(***************************************************************************)
MaxShapes == 2

PulseShapes ==
    {[described |-> TRUE, description |-> "FWS", values |-> <<1, 3>>],
     [described |-> TRUE, description |-> "FWS", values |-> <<>>],
     [described |-> FALSE, description |-> "", values |-> <<1, 3>>]}

ParticleLists ==
    {[i \in DOMAIN ids |-> [particleId |-> ids[i], pulseShapes |-> shapes[ids[i]]]] :
        ids \in InjectiveSeqs(Particles) \ {<<>>},
        shapes \in [Particles -> UNION {[1..n -> PulseShapes] : n \in 0..MaxShapes}]}

\* if description is None or not values: continue
Summarised(pulse_shape) == pulse_shape.described /\ pulse_shape.values # <<>>

\* The row of a particle: its identifiers and the columns of the pulse
\* shapes that were summarised.
PulseRow(s, particle) ==
    [sample_id |-> s, object_id |-> ObjectId(s, particle.particleId),
     cols |-> {sh.description : sh \in {x \in Range(particle.pulseShapes) :
                                           Summarised(x)}}]

\* `if not pulse_shapes: continue`, then rows.append(row).
AppendsRow(particle) == particle.pulseShapes # <<>>

RECURSIVE SortByObjectId(_)
SortByObjectId(rows) ==
    IF rows = <<>> THEN <<>>
    ELSE LET k == CHOOSE i \in DOMAIN rows :
                     \A j \in DOMAIN rows :
                        rows[i].object_id[2] <= rows[j].object_id[2]
         IN  <<rows[k]>> \o SortByObjectId(
                 [j \in 1..(Len(rows) - 1) |->
                     IF j < k THEN rows[j] ELSE rows[j + 1]])

\* The table written for the document, `written` false when no particle
\* gave a row (`if not rows: continue`).
SummarisePulsesRows(s, particles_data) ==
    LET kept == SelectSeq(particles_data, AppendsRow)
        rows == [i \in DOMAIN kept |-> PulseRow(s, kept[i])]
    IN  [written |-> rows # <<>>, rows |-> SortByObjectId(rows)]

RowsCalls == {[fn |-> "rows", particles |-> ps] : ps \in ParticleLists}

ApplyRows ==
    /\ call.fn = "rows" /\ ~ret.done
    /\ ret' = [done |-> TRUE, table |-> SummarisePulsesRows(1, call.particles)]
    /\ UNCHANGED <<projectVars, call>>

InitRows == \E c \in RowsCalls : InitPure(c)

SpecRows == InitRows /\ [][ApplyRows]_vars

\* A described channel with a non-empty value list.
Usable(pulse_shape) == pulse_shape.described /\ Len(pulse_shape.values) > 0

\* C22: the pulse table has a row for a particle if and only if the
\* particle has at least one usable waveform.
C22_RowIffUsableWaveform ==
    (call.fn = "rows" /\ ret.done) =>
        \A i \in DOMAIN call.particles :
            (\E j \in DOMAIN ret.table.rows :
                ret.table.rows[j].object_id = ObjectId(1, call.particles[i].particleId))
            <=> (\E sh \in Range(call.particles[i].pulseShapes) : Usable(sh))


(***************************************************************************)
(* C23: extract_meta over documents without an 'instrument' section.       *)
(***************************************************************************)
\* C23: over a batch of readable documents of which some, or all, lack the
\* section, extract_meta completes without error and the samples of the
\* documents that lack it have no row.
C23_MissingSectionIsNotAnError ==
    (/\ last.cmd = "extract_meta"
     /\ \A s \in Batch(last.filt) : json[s].kind \in {"ok", "nosection"}
     /\ \E s \in Batch(last.filt) : json[s].kind = "nosection")
        => /\ last.outcome = "ok"
           /\ \A s \in Batch(last.filt) :
                 json[s].kind = "nosection" => ~HasMetaRow(s)


(***************************************************************************)
(* C24: monitor_job.  The loop of monitor_job runs on (it sleeps and polls *)
(* again), and the server works on the job it was given.                   *)
(***************************************************************************)
SpecUploadLive ==
    /\ SpecUpload
    /\ WF_vars(\E answered \in BOOLEAN : PollJob(answered))
    /\ WF_vars(\E state \in JobStates : JobProgress(state))

\* A turn of the loop of monitor_job.
Polled == up.pc = "poll" /\ up' # up

\* C24: monitor_job polls again while the job is pending or running; it
\* stops on a finished, error or manual-intervention state, and also when
\* a status request fails; it returns True exactly when it observed state F
\* and False when it observed E or A or got no answer; and it terminates
\* when the job reaches one of F, E, A.
C24_MonitorJob ==
    /\ [][Polled =>
            /\ up'.job_info \in {"P", "R"} => up'.pc = "poll"
            /\ up'.job_info \in {"F", "E", "A", "None"} => up'.pc # "poll"
            /\ up'.pc # "poll" =>
                  (up'.result = "succeeded" <=> up'.job_info = "F")
            /\ up'.pc # "poll" /\ up'.job_info \in {"E", "A", "None"}
                  => up'.result = "failed"]_vars
    /\ (up.pc = "poll") ~> (up.pc # "poll")

\* monitor_job returned False after it saw the job pending, then running,
\* then in error.
C24_Witness ==
    /\ up.pc = "loop" /\ "poll" \in Range(up.steps)
    /\ up.job_info = "E" /\ up.result = "failed" /\ remote.job = "E"

\* C24 as stated: monitor_job stops only on a finished, error or
\* manual-intervention state.
C24_StopsOnlyOnTerminalState ==
    [][(Polled /\ up'.pc # "poll") => up'.job_info \in {"F", "E", "A"}]_vars


(***************************************************************************)
(* upload.authenticate.  A token is a number, 0 for None; the keyring      *)
(* holds the cached token; the call record holds what the environment      *)
(* answers: whether each keyring operation works, whether the server       *)
(* accepts the cached token, the credentials provided or typed ("" for     *)
(* none) and the token the login gives (0 when it fails).                  *)
(***************************************************************************)
CachedTokens == {0, 1, 2}
FreshToken == 3

\* keyring.get_password, None when it raises.
GetStoredToken(c) == IF c.get_works THEN c.keyring ELSE 0

\* The validation that accepts any token.
AcceptsAnyToken(c, token) == TRUE

\* _validate_token: /users/me answers 200.
ValidateToken(c, token) == c.validates

\* keyring.delete_password, errors swallowed: the keyring afterwards.
ClearToken(c, keyring) == IF c.delete_works THEN 0 ELSE keyring

\* keyring.set_password, errors logged: the keyring afterwards.
StoreToken(c, keyring, token) == IF c.set_works THEN token ELSE keyring

\* The token returned, the keyring afterwards and whether _login was called.
authenticate(c) ==
    LET token == GetStoredToken(c)
        cleared == IF token # 0 THEN ClearToken(c, c.keyring) ELSE c.keyring
    IN  IF token # 0 /\ ValidateToken(c, token)
        THEN [token |-> token, keyring |-> c.keyring, login |-> FALSE]
        ELSE IF c.username = "" \/ c.password = ""
        THEN [token |-> 0, keyring |-> cleared, login |-> FALSE]
        ELSE IF c.login = 0
        THEN [token |-> 0, keyring |-> cleared, login |-> TRUE]
        ELSE [token |-> c.login, keyring |-> StoreToken(c, cleared, c.login),
              login |-> TRUE]

AuthCalls ==
    {[fn |-> "auth", keyring |-> k, get_works |-> g, delete_works |-> d,
      set_works |-> w, validates |-> v, username |-> u, password |-> p,
      login |-> l] :
        k \in CachedTokens, g \in BOOLEAN, d \in BOOLEAN, w \in BOOLEAN,
        v \in BOOLEAN, u \in {"", "user"}, p \in {"", "secret"},
        l \in {0, FreshToken}}

ApplyAuth ==
    /\ call.fn = "auth" /\ ~ret.done
    /\ ret' = [done |-> TRUE, auth |-> authenticate(call)]
    /\ UNCHANGED <<projectVars, call>>

InitAuth == \E c \in AuthCalls : InitPure(c)

SpecAuth == InitAuth /\ [][ApplyAuth]_vars

\* The call has returned; the cached token was read and validated / was
\* read and did not validate; the login was made and succeeded / failed.
Returned == call.fn = "auth" /\ ret.done
CachedValid == Returned /\ call.get_works /\ call.keyring # 0 /\ call.validates
CachedInvalid == Returned /\ call.get_works /\ call.keyring # 0 /\ ~call.validates
LoginSucceeded == Returned /\ ret.auth.login /\ call.login # 0
LoginFailed == Returned /\ ret.auth.login /\ call.login = 0

\* C25: a cached token that validates is returned without a login; a
\* cached token that does not validate is never returned, and is cleared
\* when the keyring lets it be deleted; the token of a successful login is
\* returned, and cached when the keyring lets it be stored; a failed login
\* returns None and caches nothing.
C25_Authenticate ==
    /\ CachedValid => /\ ret.auth.token = call.keyring
                      /\ ~ret.auth.login
                      /\ ret.auth.keyring = call.keyring
    /\ CachedInvalid => /\ ret.auth.token # call.keyring
                        /\ call.delete_works => ret.auth.keyring # call.keyring
    /\ LoginSucceeded => /\ ret.auth.token = call.login
                         /\ call.set_works => ret.auth.keyring = call.login
    /\ LoginFailed => /\ ret.auth.token = 0
                      /\ ret.auth.keyring \in {0, call.keyring}

\* A cached token that did not validate was cleared, and the token of the
\* login that followed was cached and returned.
C25_Witness ==
    /\ CachedInvalid /\ LoginSucceeded
    /\ ret.auth.token = FreshToken /\ ret.auth.keyring = FreshToken

\* C25 as stated: an invalid cached token is cleared, and the token of a
\* successful login is cached.
C25_ClearedAndCached ==
    /\ CachedValid => ret.auth.token = call.keyring /\ ~ret.auth.login
    /\ CachedInvalid => /\ ret.auth.token # call.keyring
                        /\ ret.auth.keyring # call.keyring
    /\ LoginSucceeded => /\ ret.auth.token = call.login
                         /\ ret.auth.keyring = call.login
    /\ LoginFailed => /\ ret.auth.token = 0
                      /\ ret.auth.keyring \in {0, call.keyring}


(***************************************************************************)
(* C26: the command each missing-artifact message tells to run.            *)
(***************************************************************************)
\* The commands registered on the cli group.
RegisteredCommands ==
    {"install", "create", "list", "convert", "extract_meta", "extract_cyto",
     "summarise_pulses", "extract_images", "compute_features", "prepare",
     "upload", "all", "cleanup"}

\* "..., run `cytoprocess --sample '<s>' <command> <project>`"
Remediation(kind) ==
    CASE kind = "meta" -> "extract_meta"
      [] kind = "cyto" -> "extract_features"
      [] kind = "pulses" -> "summarise_pulses"
      [] kind = "images" -> "extract_images"
      [] kind = "imgfeat" -> "compute_features"

\* The artifacts, among those prepare validates, that a command writes:
\* extract_cyto and summarise_pulses write meta/<s>_cytometric_features.csv.gz
\* and meta/<s>_pulses.csv.gz, not the work/<s>_*.parquet prepare looks for.
Produces(command) ==
    CASE command = "extract_meta" -> {"meta"}
      [] command = "extract_images" -> {"images"}
      [] command = "compute_features" -> {"imgfeat"}
      [] OTHER -> {}

\* C26: every missing-artifact message of prepare's validation names a
\* registered command, and one that produces the artifact reported missing.
C26_RemediationIsRegisteredAndProduces ==
    \A m \in last.reported :
        /\ Remediation(m[2]) \in RegisteredCommands
        /\ m[2] \in Produces(Remediation(m[2]))


(***************************************************************************)
(* list.run.  The name of a sample (the stem of its file) is a string of   *)
(* characters; a row of meta/samples.csv is the text of its sample_id cell *)
(* and of a cell of custom metadata.  pandas.read_csv gives the sample_id  *)
(* column the integer type when every cell of it reads as an integer, and  *)
(* to_csv writes an integer in decimal.                                    *)
(***************************************************************************)
Stems == {<<"a">>, <<"1", "2">>, <<"0", "7">>}

IsDigits(text) == text # <<>> /\ \A i \in DOMAIN text : text[i] \in Range(DigitChars)

DigitValue(c) == (CHOOSE i \in DOMAIN DigitChars : DigitChars[i] = c) - 1

RECURSIVE ParseInt(_)
ParseInt(text) ==
    IF text = <<>> THEN 0
    ELSE 10 * ParseInt(SubSeq(text, 1, Len(text) - 1)) + DigitValue(text[Len(text)])

CsvStr(text) == [t |-> "str", n |-> 0, s |-> text]
CsvInt(n) == [t |-> "int", n |-> n, s |-> <<>>]

\* pd.read_csv: the rows with the sample_id column typed.
ReadCsv(rows) ==
    LET integers == rows # <<>> /\ \A i \in DOMAIN rows : IsDigits(rows[i].sample_id)
    IN  [i \in DOMAIN rows |->
            [sample_id |-> IF integers THEN CsvInt(ParseInt(rows[i].sample_id))
                           ELSE CsvStr(rows[i].sample_id),
             note |-> rows[i].note]]

\* to_csv: the rows as text.
ToCsv(df) ==
    [i \in DOMAIN df |->
        [sample_id |-> IF df[i].sample_id.t = "int" THEN Decimal(df[i].sample_id.n)
                       ELSE df[i].sample_id.s,
         note |-> df[i].note]]

\* samples['sample_id'].isin(existing_samples['sample_id']): a string
\* equals no integer.
IsIn(value, column) == \E i \in DOMAIN column : column[i] = value

\* The whole of list.run over the converted files as globbed (`stems`).
ListRun(stems, csv, extra_field_list) ==
    LET samples == [i \in DOMAIN stems |-> [sample_id |-> CsvStr(stems[i]), note |-> ""]]
        existing_samples == ReadCsv(csv.rows)
        ids == [i \in DOMAIN existing_samples |-> existing_samples[i].sample_id]
        new_samples == SelectSeq(samples, LAMBDA r : ~IsIn(r.sample_id, ids))
        missing_fields == extra_field_list \ csv.fields
        written(df, fields) ==
            [csv |-> [exists |-> TRUE, fields |-> fields, rows |-> ToCsv(df)],
             outcome |-> "ok"]
    IN  IF stems = <<>> THEN [csv |-> csv, outcome |-> "CytoError"]
        ELSE IF ~csv.exists THEN written(samples, extra_field_list)
        ELSE IF new_samples = <<>>
        THEN IF missing_fields = {} THEN [csv |-> csv, outcome |-> "ok"]
             ELSE written(existing_samples, csv.fields \cup missing_fields)
        ELSE written(existing_samples \o new_samples, csv.fields \cup extra_field_list)

ExtraFields == {"object_lon"}

\* The runs of list looked at are those over a file of fewer rows.
MaxCsvRows == 4

\* The stems of the samples of the project are held by `call`.
ConvertedStems(order) == [i \in DOMAIN order |-> call.stem[order[i]]]

List(extra_field_list) ==
    /\ Len(samplesCsv.rows) < MaxCsvRows
    /\ \E order \in Orders({s \in Samples : json[s].kind # "none"}) :
          LET r == ListRun(ConvertedStems(order), samplesCsv, extra_field_list)
          IN  /\ samplesCsv' = r.csv
              /\ last' = Command("list", 0, FALSE, FALSE, r.outcome, {}, {})
              /\ UNCHANGED <<json, listed, instMeta, workCyto, workPulses,
                             metaCyto, metaPulses, images, imgFeat, ecoDir, eco,
                             call, ret, remote, up, pool>>

\* The user fills in the custom metadata of a row.
EditNote(i) ==
    /\ samplesCsv.exists /\ i \in DOMAIN samplesCsv.rows
    /\ samplesCsv.rows[i].note = ""
    /\ samplesCsv' = [samplesCsv EXCEPT !.rows[i].note = "x"]
    /\ last' = [NoCommand EXCEPT !.cmd = "edit"]
    /\ UNCHANGED <<json, listed, instMeta, workCyto, workPulses, metaCyto,
                   metaPulses, images, imgFeat, ecoDir, eco, call, ret, remote, up,
                   pool>>

InitList ==
    /\ \E stem \in [Samples -> Stems] :
          /\ \A s, q \in Samples : s # q => stem[s] # stem[q]
          /\ call = [fn |-> "list", stem |-> stem]
    /\ json = [s \in Samples |-> NoJson]
    /\ listed = {}
    /\ instMeta = NoTable
    /\ workCyto = {} /\ workPulses = {} /\ metaCyto = {} /\ metaPulses = {}
    /\ images = [s \in Samples |-> NoDir]
    /\ imgFeat = [s \in Samples |-> NoTable]
    /\ ecoDir = FALSE /\ eco = NoFiles
    /\ last = NoCommand
    /\ ret = NoRet
    /\ remote = NoRemote /\ up = NoUpload
    /\ samplesCsv = NoCsv
    /\ pool = NoPool

NextList ==
    \/ \E extra \in SUBSET ExtraFields : List(extra)
    \/ \E filt \in Filters, force \in BOOLEAN : Convert(filt, force)
    \/ \E s \in Samples : ConverterWrites(s, [kind |-> "ok", ver |-> 1])
    \/ \E i \in 1..MaxCsvRows : EditNote(i)

SpecList == InitList /\ [][NextList]_vars

\* C27: a run of list or convert keeps every row of meta/samples.csv with
\* its values, leaves no sample_id with two rows, and after list has run
\* every converted sample has a row.
C27_RowsKeptOncePerSample ==
    [][last'.cmd \in {"list", "convert"} =>
          /\ \A i \in DOMAIN samplesCsv.rows :
                \E j \in DOMAIN samplesCsv'.rows :
                    samplesCsv'.rows[j] = samplesCsv.rows[i]
          /\ \A i, j \in DOMAIN samplesCsv'.rows :
                samplesCsv'.rows[i].sample_id = samplesCsv'.rows[j].sample_id
                    => \/ i = j
                       \/ \E k, l \in DOMAIN samplesCsv.rows :
                             k # l /\ samplesCsv.rows[k].sample_id
                                         = samplesCsv.rows[l].sample_id
          /\ (last'.cmd = "list" /\ last'.outcome = "ok") =>
                \A s \in Samples :
                    json[s].kind # "none" =>
                        \E j \in DOMAIN samplesCsv'.rows :
                            samplesCsv'.rows[j].sample_id = call.stem[s]]_vars


(***************************************************************************)
(* The identifiers of a particle as text.  A sample id S and a particle id *)
(* P are strings of characters.                                            *)
(***************************************************************************)
MaxNameLen == 3

NameChars == {"a", "_", "."}

Names == UNION {[1..n -> NameChars] : n \in 1..MaxNameLen}

\* f"{sample_id}_{particle_idx}" (extract_cyto, summarise_pulses) and
\* f"{sample_id}_{particle_id}" (compute_features).
ObjectIdText(sample_id, particle_id) == sample_id \o <<"_">> \o particle_id

\* f"{particle_id}.png", the file extract_images writes.
PngName(particle_id) == particle_id \o <<".", "p", "n", "g">>

\* Path.stem: the name without its last suffix.
Stem(name) ==
    LET dots == {i \in DOMAIN name : name[i] = "." /\ i > 1 /\ i < Len(name)}
    IN  IF dots = {} THEN name
        ELSE SubSeq(name, 1, (CHOOSE i \in dots : \A j \in dots : j <= i) - 1)

Occurrences(text, pat) ==
    {i \in 1..(Len(text) - Len(pat) + 1) : SubSeq(text, i, i + Len(pat) - 1) = pat}

\* The replacement of the last occurrence instead of the first.
ReplaceLast(text, pat, repl) ==
    IF Occurrences(text, pat) = {} THEN text
    ELSE LET i == CHOOSE k \in Occurrences(text, pat) :
                     \A j \in Occurrences(text, pat) : j <= k
         IN  SubSeq(text, 1, i - 1) \o repl \o SubSeq(text, i + Len(pat), Len(text))

\* str.replace(pat, repl, n=1): the first occurrence, read literally.
ReplaceFirst(text, pat, repl) ==
    IF Occurrences(text, pat) = {} THEN text
    ELSE LET i == CHOOSE k \in Occurrences(text, pat) :
                     \A j \in Occurrences(text, pat) : k <= j
         IN  SubSeq(text, 1, i - 1) \o repl \o SubSeq(text, i + Len(pat), Len(text))

\* df['object_id'].str.replace(f"{sample_id}_", "", n=1) + ".png"
ImgFileNameText(object_id, sample_id) ==
    ReplaceFirst(object_id, sample_id \o <<"_">>, <<>>) \o <<".", "p", "n", "g">>

\* What each stage makes of the particle P of the sample S.
ParticleIds(S, P) ==
    [file |-> PngName(P),
     cyto |-> ObjectIdText(S, P),
     pulses |-> ObjectIdText(S, P),
     features |-> ObjectIdText(S, Stem(PngName(P))),
     img_file_name |-> ImgFileNameText(ObjectIdText(S, P), S)]

IdCalls == {[fn |-> "ids", S |-> s, P |-> p] : s \in Names, p \in Names}

ApplyIds ==
    /\ call.fn = "ids" /\ ~ret.done
    /\ ret' = [done |-> TRUE, ids |-> ParticleIds(call.S, call.P)]
    /\ UNCHANGED <<projectVars, call>>

InitIds == \E c \in IdCalls : InitPure(c)

SpecIds == InitIds /\ [][ApplyIds]_vars

\* C28: the three stages build the same object_id, S + "_" + P, and the
\* img_file_name derived from it is P + ".png", the name of the file
\* extract_images wrote, whatever "_" and text of S the ids contain.
C28_IdsAgree ==
    (call.fn = "ids" /\ ret.done) =>
        /\ ret.ids.cyto = call.S \o <<"_">> \o call.P
        /\ ret.ids.pulses = ret.ids.cyto
        /\ ret.ids.features = ret.ids.cyto
        /\ ret.ids.img_file_name = call.P \o <<".", "p", "n", "g">>
        /\ ret.ids.img_file_name = ret.ids.file

\* A particle id that holds the text of the sample id and a "_".
C28_Witness ==
    /\ call.fn = "ids" /\ ret.done
    /\ call.S = <<"a">> /\ call.P = <<"a", "_", "a">>
    /\ ret.ids.img_file_name = <<"a", "_", "a", ".", "p", "n", "g">>


(***************************************************************************)
(* compute_features inside `pool.map(_process_single_image, args_list)`.   *)
(* The tasks of one sample are handed to the workers of the pool, which    *)
(* run them side by side and return in any order; map gives the results    *)
(* back in the order of args_list, once every task has returned.           *)
(***************************************************************************)
NWorkers == 2

\* The row _process_single_image returns for an image it could process.
ImageRow(s, p) ==
    [sample_id |-> s, object_id |-> ObjectId(s, p), val |-> <<"img", s, p>>]

\* The loop of run reaches pool.map for the sample: its directory holds
\* images and its table is absent or forced.
PoolMap(s, force) ==
    /\ ~pool.active
    /\ images[s].exists /\ images[s].files # {}
    /\ force \/ ~imgFeat[s].exists
    /\ pool' = [active |-> TRUE, sample |-> s, force |-> force,
                args |-> SortedSeq(images[s].files),
                running |-> {},
                results |-> [i \in 1..Cardinality(images[s].files) |-> "pending"],
                returned |-> <<>>]
    /\ UNCHANGED <<json, listed, instMeta, workCyto, workPulses, metaCyto,
                   metaPulses, images, imgFeat, ecoDir, eco, last, call, ret,
                   remote, up, samplesCsv>>

\* An idle worker takes a task that no worker took.
WorkerTakes(i) ==
    /\ pool.active /\ i \in DOMAIN pool.args
    /\ pool.results[i] = "pending" /\ i \notin pool.running
    /\ Cardinality(pool.running) < NWorkers
    /\ pool' = [pool EXCEPT !.running = @ \cup {i}]
    /\ UNCHANGED <<json, listed, instMeta, workCyto, workPulses, metaCyto,
                   metaPulses, images, imgFeat, ecoDir, eco, last, call, ret,
                   remote, up, samplesCsv>>

\* A worker returns from _process_single_image: a row, or None.
WorkerReturns(i) ==
    /\ pool.active /\ i \in pool.running
    /\ pool' = [pool EXCEPT
                   !.running = @ \ {i},
                   !.results[i] = IF pool.args[i] \in images[pool.sample].bad
                                  THEN "None" ELSE "row",
                   !.returned = Append(@, i)]
    /\ UNCHANGED <<json, listed, instMeta, workCyto, workPulses, metaCyto,
                   metaPulses, images, imgFeat, ecoDir, eco, last, call, ret,
                   remote, up, samplesCsv>>

\* map would return as soon as one task has.
FirstReturned(p) == \E i \in DOMAIN p.results : p.results[i] # "pending"

\* map returns when every task has returned.
MapDone(p) == \A i \in DOMAIN p.results : p.results[i] # "pending"

\* results, in the order of args_list, without the None.
MapRows(p) ==
    LET kept == SelectSeq([i \in DOMAIN p.args |-> <<i, p.results[i]>>],
                          LAMBDA r : r[2] = "row")
    IN  [k \in DOMAIN kept |-> ImageRow(p.sample, p.args[kept[k][1]])]

\* pool.map returns; the rows are sorted by object_id and written, unless
\* there is none.
MapReturns ==
    /\ pool.active /\ MapDone(pool)
    /\ LET rows == MapRows(pool)
           s == pool.sample
       IN  /\ imgFeat' = IF rows = <<>> THEN imgFeat
                         ELSE [imgFeat EXCEPT
                                  ![s] = [exists |-> TRUE,
                                          rows |-> SortByObjectId(rows)]]
           /\ last' = Command("compute_features", s, pool.force, FALSE, "ok",
                              IF rows # <<>> /\ imgFeat[s].exists
                              THEN {<<"imgFeat", s>>} ELSE {}, {})
    /\ pool' = [pool EXCEPT !.active = FALSE]
    /\ UNCHANGED <<json, listed, instMeta, workCyto, workPulses, metaCyto,
                   metaPulses, images, ecoDir, eco, call, ret, remote, up,
                   samplesCsv>>

InitPool ==
    /\ \E dirs \in [Samples -> {NoDir} \cup
                       {[exists |-> TRUE, files |-> f, bad |-> b] :
                           f \in SUBSET Particles, b \in SUBSET Particles}] :
          /\ \A s \in Samples : dirs[s].bad \subseteq dirs[s].files
          /\ images = dirs
    /\ \E before \in [Samples -> SUBSET Particles] :
          imgFeat = [s \in Samples |->
                        IF before[s] = {} THEN NoTable
                        ELSE [exists |-> TRUE,
                              rows |-> FeatureRows(s, before[s])]]
    /\ json = [s \in Samples |-> [kind |-> "ok", ver |-> 1]]
    /\ listed = Samples
    /\ instMeta = NoTable
    /\ workCyto = {} /\ workPulses = {}
    /\ metaCyto = FALSE /\ metaPulses = FALSE
    /\ ecoDir = FALSE /\ eco = NoFiles
    /\ last = NoCommand
    /\ call = NoCall /\ ret = NoRet
    /\ remote = NoRemote /\ up = NoUpload
    /\ samplesCsv = NoCsv
    /\ pool = NoPool

NextPool ==
    \/ \E s \in Samples, force \in BOOLEAN : PoolMap(s, force)
    \/ \E i \in 1..NParticles : WorkerTakes(i)
    \/ \E i \in 1..NParticles : WorkerReturns(i)
    \/ MapReturns

SpecPool == InitPool /\ [][NextPool]_vars

\* C29: the table of image features of a sample is written only after every
\* image task of the sample has returned, and it holds one row per image
\* that gave one, sorted by object_id, whatever the order in which the
\* workers took and returned the tasks.
C29_WrittenAfterAllTasksSameRows ==
    [][imgFeat' # imgFeat =>
          /\ pool.active /\ pool.running = {}
          /\ \A i \in DOMAIN pool.args : pool.results[i] # "pending"
          /\ Len(pool.returned) = Len(pool.args)
          /\ imgFeat' = [imgFeat EXCEPT
                            ![pool.sample] =
                                [exists |-> TRUE,
                                 rows |-> FeatureRows(
                                     pool.sample,
                                     ProcessSingleImage(images, pool.sample))]]]_vars

\* Two tasks ran side by side and returned in the reverse of their order in
\* args_list; the table that was not there before holds both rows.
C29_Witness ==
    /\ ~pool.active /\ pool.sample = 1
    /\ pool.args = <<1, 2>> /\ pool.returned = <<2, 1>>
    /\ last.cmd = "compute_features" /\ last.rewrote = {}
    /\ imgFeat[1] = [exists |-> TRUE, rows |-> FeatureRows(1, {1, 2})]


(***************************************************************************)
(* extract_meta._get_json_structure and extract_cyto                       *)
(* ._get_parameters_structure: the paths offered to the user, each of      *)
(* which the extraction later resolves with _get_json_item and             *)
(* _get_parameter_value.                                                   *)
(***************************************************************************)
RECURSIVE GetJsonStructure(_, _)
RECURSIVE StructureFrom(_, _, _)

\* The for loop over json_data.items() from the item i on.
StructureFrom(json_data, prefix, i) ==
    IF i > Len(json_data.items) THEN <<>>
    ELSE LET key == json_data.items[i].k
             value == json_data.items[i].x
             current_path == IF prefix # <<>> THEN prefix \o <<".">> \o key
                             ELSE key
             list_path == current_path \o <<"[", "]">>
             here == IF IsDict(value)
                     THEN <<current_path>> \o GetJsonStructure(value, current_path)
                     ELSE IF IsList(value) /\ value.items # <<>>
                     THEN <<list_path>> \o
                          (IF IsDict(value.items[1].x)
                           THEN GetJsonStructure(value.items[1].x, list_path)
                           ELSE <<>>)
                     ELSE <<current_path>>
         IN  here \o StructureFrom(json_data, prefix, i + 1)

GetJsonStructure(json_data, prefix) ==
    IF IsDict(json_data) THEN StructureFrom(json_data, prefix, 1) ELSE <<>>

\* The paths of one record of the list: none for an entry that is not a
\* record or has no description.
ParameterPaths(param_dict) ==
    IF ~IsDict(param_dict) THEN <<>>
    ELSE IF Get(param_dict, <<"description">>) = None THEN <<>>
    ELSE LET fields == SelectSeq(param_dict.items,
                                 LAMBDA e : e.k # <<"description">>)
         IN  [j \in DOMAIN fields |->
                 Str(Get(param_dict, <<"description">>)) \o <<".">> \o fields[j].k]

RECURSIVE GetParametersStructure(_)
GetParametersStructure(parameters) ==
    IF parameters = <<>> THEN <<>>
    ELSE ParameterPaths(Head(parameters))
             \o GetParametersStructure(Tail(parameters))

\* Documents whose keys hold a "." or end with "[]", next to those that
\* do not.
StructureDocs ==
    Documents \cup
    {JDict(<<<<<<"a", ".", "b">>, JInt(1)>>>>),
     JDict(<<<<<<"a", "[", "]">>, JInt(2)>>>>),
     JDict(<<<<<<"a">>, JDict(<<<<<<"b">>, JInt(1)>>>>)>>,
             <<<<"a", ".", "b">>, JInt(2)>>>>),
     JDict(<<<<<<"a">>, JDict(<<<<<<"b", ".", "a">>, JStr(<<"x">>)>>>>)>>>>),
     JDict(<<<<<<"a">>, JList(<<JDict(<<<<<<"b", "[", "]">>, JInt(1)>>>>)>>)>>>>),
     JDict(<<<<<<"a">>, JStr(<<"x">>)>>,
             <<<<"b">>, JDict(<<<<<<"a">>, JDict(<<<<<<"b">>, JInt(4)>>>>)>>>>)>>>>),
     JDict(<<<<<<"a">>, JList(<<JInt(1), JInt(2)>>)>>, <<<<"b">>, JStr(<<"y">>)>>>>),
     JDict(<<>>)}

DiscoverCalls ==
    {[fn |-> "structure", doc |-> d] : d \in StructureDocs}
        \cup {[fn |-> "parameters", parameters |-> ps] :
                 ps \in UNION {[1..n -> Records] : n \in 0..MaxParams}}

\* The paths of the document, each resolved on the document.
ApplyStructure ==
    /\ call.fn = "structure" /\ ~ret.done
    /\ LET paths == GetJsonStructure(call.doc, <<>>)
       IN  ret' = [done |-> TRUE, paths |-> paths,
                   values |-> [i \in DOMAIN paths |->
                                  GetJsonItem(call.doc, paths[i])]]
    /\ UNCHANGED <<projectVars, call>>

\* The paths of the parameter list, each resolved on the list.
ApplyParameters ==
    /\ call.fn = "parameters" /\ ~ret.done
    /\ LET paths == GetParametersStructure(call.parameters)
       IN  ret' = [done |-> TRUE, paths |-> paths,
                   values |-> [i \in DOMAIN paths |->
                                  GetParameterValue(call.parameters, paths[i])]]
    /\ UNCHANGED <<projectVars, call>>

InitDiscover == \E c \in DiscoverCalls : InitPure(c)

NextDiscover == ApplyStructure \/ ApplyParameters

SpecDiscover == InitDiscover /\ [][NextDiscover]_vars

\* The values at the locations the structure walks, in the order of its
\* paths: the value under a key; for a list, and for the keys of its first
\* element, `joined` says that the resolution joins the elements.
RECURSIVE Locations(_, _)
RECURSIVE LocationsFrom(_, _, _)
LocationsFrom(json_data, joined, i) ==
    IF i > Len(json_data.items) THEN <<>>
    ELSE LET value == json_data.items[i].x
             here == IF IsDict(value)
                     THEN <<[at |-> value, joined |-> joined]>>
                              \o Locations(value, joined)
                     ELSE IF IsList(value) /\ value.items # <<>>
                     THEN <<[at |-> value, joined |-> TRUE]>>
                              \o Locations(value.items[1].x, TRUE)
                     ELSE <<[at |-> value, joined |-> joined]>>
         IN  here \o LocationsFrom(json_data, joined, i + 1)

Locations(json_data, joined) ==
    IF IsDict(json_data) THEN LocationsFrom(json_data, joined, 1) ELSE <<>>

\* The fields of the records of the list, in the order of the paths.
RECURSIVE Fields(_)
Fields(parameters) ==
    IF parameters = <<>> THEN <<>>
    ELSE LET d == Head(parameters)
             fields == IF IsDict(d) /\ Get(d, <<"description">>) # None
                       THEN SelectSeq(d.items, LAMBDA e : e.k # <<"description">>)
                       ELSE <<>>
         IN  [j \in DOMAIN fields |-> fields[j].x] \o Fields(Tail(parameters))

\* C30: every path the structure of a document lists resolves on the
\* document to the non-null value at its location (to a joined string
\* through a list), and every path the structure of a parameter list lists
\* resolves to the field of its record, also for keys and descriptions that
\* hold a "." or end with "[]".
C30_DiscoveredPathsResolve ==
    /\ (call.fn = "structure" /\ ret.done) =>
          \A i \in DOMAIN ret.paths :
              LET loc == Locations(call.doc, FALSE)[i]
              IN  loc.at # None =>
                     IF loc.joined THEN ret.values[i] # None
                     ELSE ret.values[i] = loc.at
    /\ (call.fn = "parameters" /\ ret.done) =>
          \A i \in DOMAIN ret.paths :
              ret.values[i] = Fields(call.parameters)[i]

====
